---- MODULE Spec2Model ----
(***************************************************************************)
(* A model of the github-proxy server: the in-memory response cache        *)
(* (CacheManager), the blacklist filter, the upstream client's retry       *)
(* interceptors, the HTTP server's request handler and the route handlers  *)
(* of the proxy.                                                           *)
(*                                                                         *)
(* Time is counted in hours: config.cache.maxAge (60*60*1000 ms) is 1 and  *)
(* config.cache.staticMaxAge (24*60*60*1000 ms) is 24.                     *)
(***************************************************************************)
EXTENDS Integers, Sequences, FiniteSets, TLC

\* ------------------------------------------------------------------ bounds
MaxTime == 3
MaxGets == 2
MaxAccessLog == 3
LoginAttemptLimit == 2

\* ------------------------------------------------------- config/config.js
cacheEnabled == TRUE
maxAge == 1
staticMaxAge == 24

VARIABLES
  \* CacheManager
  cache,      \* this.cache: a Map key -> [data, timestamp, maxAge]
  stats,      \* this.stats: [hits, misses, size]
  now,        \* Date.now(), in hours
  cacheOp,    \* the last call, when it is a get(): its key, time and result
  lastSet,    \* per key, the last set() of a cacheable value not followed by clear()
  \* blacklist
  blacklistConfig,     \* the policy in memory
  checkedPathsCache,   \* the verdict cache: a Map repoPath -> boolean
  configLastModified,  \* mtime of the file at the last successful load
  file,                \* data/blacklist.json: [state, content, mtime]
  blOp,                \* the last blacklist call: [op, path, result, status]
  lastGood,            \* the policy of the last successful load, if any
  fileChanged,         \* the file changed since the last (re)load or check
  \* axios client
  call,                \* one client call: its config, state, attempts and delays
  \* server
  reqs,                \* per slot, an inbound request being handled and what was done for it
  requests,            \* the number of requests accepted
  html,                \* an HTML page on its way to the client: its body before and after rewriting
  \* admin API
  users,               \* data/users.json: per username, the stored account
  issued,              \* the JWT payloads signed with JWT_SECRET so far
  logs,                \* lines appended to logs/access.log and logs/error.log
  adminStats,          \* admin.js stats: requestsTotal, requestsSuccess, requestsError
  loginFailures,       \* per username, the failed logins since its last successful one
  adminOp              \* the last admin request: who sent it, what it asked, what was done

cacheVars == <<cache, stats, now, cacheOp, lastSet>>
blVars == <<blacklistConfig, checkedPathsCache, configLastModified, file, blOp,
            lastGood, fileChanged>>
retryVars == <<call>>
proxyVars == <<reqs, requests, html>>
adminVars == <<users, issued, logs, adminStats, loginFailures, adminOp>>

vars == <<cache, stats, now, cacheOp, lastSet,
          blacklistConfig, checkedPathsCache, configLastModified, file, blOp,
          lastGood, fileChanged, call, reqs, requests, html,
          users, issued, logs, adminStats, loginFailures, adminOp>>

\* ---------------------------------------------------------------- strings
\* A string is a sequence of one-character strings.
UpperCase == <<"A","B","C","D","E","F","G","H","I","J","K","L","M",
               "N","O","P","Q","R","S","T","U","V","W","X","Y","Z">>
LowerCase == <<"a","b","c","d","e","f","g","h","i","j","k","l","m",
               "n","o","p","q","r","s","t","u","v","w","x","y","z">>

toLowerChar(c) ==
  IF \E i \in 1..26 : UpperCase[i] = c
  THEN LowerCase[CHOOSE i \in 1..26 : UpperCase[i] = c]
  ELSE c

\* String.prototype.toLowerCase
toLowerCase(s) == [i \in 1..Len(s) |-> toLowerChar(s[i])]

\* String.prototype.startsWith, endsWith, includes
startsWith(s, p) == Len(s) >= Len(p) /\ SubSeq(s, 1, Len(p)) = p
endsWith(s, p) == Len(s) >= Len(p) /\ SubSeq(s, Len(s) - Len(p) + 1, Len(s)) = p
includes(s, p) == \E i \in 0..(Len(s) - Len(p)) : SubSeq(s, i + 1, i + Len(p)) = p

\* s.split('/').filter(p => p.length > 0)
RECURSIVE splitSlash(_)
splitSlash(s) ==
  IF s = << >> THEN << >>
  ELSE IF Head(s) = "/" THEN splitSlash(Tail(s))
  ELSE LET n == IF \E i \in 1..Len(s) : s[i] = "/"
                THEN (CHOOSE i \in 1..Len(s) :
                        s[i] = "/" /\ \A j \in 1..(i - 1) : s[j] # "/") - 1
                ELSE Len(s)
       IN <<SubSeq(s, 1, n)>> \o splitSlash(SubSeq(s, n + 1, Len(s)))

\* ------------------------------------------------------------------- URLs
Digits == <<"0","1","2","3","4","5","6","7","8","9">>
isAlnum(c) ==
  \/ \E i \in 1..26 : LowerCase[i] = c \/ UpperCase[i] = c
  \/ \E i \in 1..10 : Digits[i] = c

\* String.prototype.indexOf, counting from 1; 0 when p does not occur
indexOf(s, p) ==
  IF includes(s, p)
  THEN CHOOSE i \in 1..(Len(s) - Len(p) + 1) :
         /\ SubSeq(s, i, i + Len(p) - 1) = p
         /\ \A j \in 1..(i - 1) : SubSeq(s, j, j + Len(p) - 1) # p
  ELSE 0

\* s.replace(p, r) for a string p: the first occurrence only
replaceFirst(s, p, r) ==
  LET i == indexOf(s, p)
  IN IF i = 0 THEN s
     ELSE SubSeq(s, 1, i - 1) \o r \o SubSeq(s, i + Len(p), Len(s))

\* The position of the dot of /\.[^/.]+$/ in s; 0 when s has no such suffix
extensionDot(s) ==
  IF \E i \in 1..Len(s) : s[i] \in {".", "/"}
  THEN LET i == CHOOSE k \in 1..Len(s) :
                  s[k] \in {".", "/"} /\ \A j \in (k + 1)..Len(s) : s[j] \notin {".", "/"}
       IN IF s[i] = "." /\ i < Len(s) THEN i ELSE 0
  ELSE 0

\* s.match(/\.[a-z0-9]+$/i)
hasAlnumExtension(s) ==
  \E i \in 1..(Len(s) - 1) : s[i] = "." /\ \A j \in (i + 1)..Len(s) : isAlnum(s[j])

\* The server's test /\.(html|js|css|jpg|jpeg|png|gif|ico|svg|woff|woff2|ttf|eot)$/i
StaticExtensions ==
  {<<"h", "t", "m", "l">>, <<"j", "s">>, <<"c", "s", "s">>, <<"j", "p", "g">>, <<"j", "p", "e", "g">>, <<"p", "n", "g">>, <<"g", "i", "f">>, <<"i", "c", "o">>,
   <<"s", "v", "g">>, <<"w", "o", "f", "f">>, <<"w", "o", "f", "f", "2">>, <<"t", "t", "f">>, <<"e", "o", "t">>}
isStaticFile(url) ==
  \E e \in StaticExtensions : endsWith(toLowerCase(url), <<".">> \o e)

\* config.github
baseUrl == <<"h", "t", "t", "p", "s", ":", "/", "/", "g", "i", "t", "h", "u", "b", ".", "c", "o", "m">>
rawUrl == <<"h", "t", "t", "p", "s", ":", "/", "/", "r", "a", "w", ".", "g", "i", "t", "h", "u", "b", "u", "s", "e", "r", "c", "o", "n", "t", "e", "n", "t", ".", "c", "o", "m">>
apiUrl == <<"h", "t", "t", "p", "s", ":", "/", "/", "a", "p", "i", ".", "g", "i", "t", "h", "u", "b", ".", "c", "o", "m">>
assetsUrl == <<"h", "t", "t", "p", "s", ":", "/", "/", "g", "i", "t", "h", "u", "b", ".", "g", "i", "t", "h", "u", "b", "a", "s", "s", "e", "t", "s", ".", "c", "o", "m">>
releaseUrl == <<"h", "t", "t", "p", "s", ":", "/", "/", "g", "i", "t", "h", "u", "b", "-", "r", "e", "l", "e", "a", "s", "e", "s", ".", "g", "i", "t", "h", "u", "b", "u", "s", "e", "r", "c", "o", "n", "t", "e", "n", "t", ".", "c", "o", "m">>
codeloadUrl == <<"h", "t", "t", "p", "s", ":", "/", "/", "c", "o", "d", "e", "l", "o", "a", "d", ".", "g", "i", "t", "h", "u", "b", ".", "c", "o", "m">>

\* The host of an absolute URL: what stands between "://" and the next "/"
hostOf(u) ==
  LET i == indexOf(u, <<":", "/", "/">>)
      rest == SubSeq(u, i + 3, Len(u))
      j == indexOf(rest, <<"/">>)
  IN IF j = 0 THEN rest ELSE SubSeq(rest, 1, j - 1)

\* What follows the host of an absolute URL, "" when nothing does
pathOf(u) ==
  LET i == indexOf(u, <<":", "/", "/">>)
      rest == SubSeq(u, i + 3, Len(u))
      j == indexOf(rest, <<"/">>)
  IN IF j = 0 THEN << >> ELSE SubSeq(rest, j, Len(rest))

\* new URL(u) succeeds: an http(s) URL with a host
isValidUrl(u) ==
  /\ startsWith(u, <<"h", "t", "t", "p", ":", "/", "/">>) \/ startsWith(u, <<"h", "t", "t", "p", "s", ":", "/", "/">>)
  /\ hostOf(u) # << >>

\* urlObj.protocol = 'https:'; urlObj.toString(), for a URL whose path needs no
\* escaping: the scheme becomes https, the host lower case, an empty path "/"
toHttpsString(u) ==
  <<"h", "t", "t", "p", "s", ":", "/", "/">> \o toLowerCase(hostOf(u))
    \o (IF pathOf(u) = << >> THEN <<"/">> ELSE pathOf(u))

\* The extensions tried for an expanded_assets URL
extensions == <<<<".", "j", "s", "o", "n">>, <<".", "j", "s">>, <<".", "t", "s">>, <<".", "c", "s", "s">>, <<".", "t", "x", "t">>, <<".", "m", "d">>>>

\* The alternate-extension attempt always asking for .json
nextUrlJson(targetUrl) ==
  LET d == extensionDot(targetUrl)
  IN (IF d = 0 THEN targetUrl ELSE SubSeq(targetUrl, 1, d - 1)) \o extensions[1]

\* The URL of the alternate-extension attempt made after targetUrl failed
nextUrl(targetUrl) ==
  LET d == extensionDot(targetUrl)
      base == IF d = 0 THEN targetUrl ELSE SubSeq(targetUrl, 1, d - 1)
      currentExtension == IF d = 0 THEN << >> ELSE SubSeq(targetUrl, d + 1, Len(targetUrl))
      found == \E i \in 1..Len(extensions) : Tail(extensions[i]) = currentExtension
      currentIndex == IF found
                      THEN (CHOOSE i \in 1..Len(extensions) :
                              Tail(extensions[i]) = currentExtension) - 1
                      ELSE 0 - 1
      nextExtIndex == IF currentExtension # << >> /\ currentIndex > 0 - 1
                      THEN (currentIndex + 1) % Len(extensions)
                      ELSE 0
  IN base \o extensions[nextExtIndex + 1]

\* s.replace(/https?:\/\/cdn\.[^\/]+/, rawUrl) for an s with at most one "http"
replaceCdnHost(u) ==
  IF (startsWith(u, <<"h", "t", "t", "p", ":", "/", "/", "c", "d", "n", ".">>) \/ startsWith(u, <<"h", "t", "t", "p", "s", ":", "/", "/", "c", "d", "n", ".">>))
       /\ Len(hostOf(u)) > 4
  THEN rawUrl \o pathOf(u)
  ELSE u

joinSlash(parts) ==
  LET RECURSIVE join(_)
      join(ps) == IF ps = << >> THEN << >>
                  ELSE IF Len(ps) = 1 THEN ps[1]
                  ELSE ps[1] \o <<"/">> \o join(Tail(ps))
  IN join(parts)

\* tryGitHubFallback's URL, for a targetUrl without empty path segments
githubFallbackUrl(targetUrl) ==
  LET segs == splitSlash(targetUrl)
      first == IF startsWith(targetUrl, <<"/">>) THEN 1 ELSE 2
      isRelease(i) == i + 4 <= Len(segs) /\ segs[i + 2] = <<"r", "e", "l", "e", "a", "s", "e", "s">>
      cdnPath == IF pathOf(targetUrl) = << >> THEN << >> ELSE Tail(pathOf(targetUrl))
      pathParts == splitSlash(cdnPath)
  IN IF \E i \in first..Len(segs) : isRelease(i)
     THEN LET i == CHOOSE k \in first..Len(segs) :
                     isRelease(k) /\ \A j \in first..(k - 1) : ~isRelease(j)
          IN IF segs[i + 3] = <<"e", "x", "p", "a", "n", "d", "e", "d", "_", "a", "s", "s", "e", "t", "s">>
             THEN replaceFirst(replaceCdnHost(targetUrl),
                               <<"/", "e", "x", "p", "a", "n", "d", "e", "d", "_", "a", "s", "s", "e", "t", "s", "/">>, <<"/", "d", "o", "w", "n", "l", "o", "a", "d", "/">>)
             ELSE rawUrl \o <<"/">> \o segs[i] \o <<"/">> \o segs[i + 1] \o <<"/">>
                    \o segs[i + 3] \o <<"/">> \o segs[i + 4]
     ELSE IF replaceCdnHost(targetUrl) # targetUrl /\ cdnPath # << >>
          THEN IF Len(pathParts) >= 2
               THEN rawUrl \o <<"/">> \o pathParts[1] \o <<"/">> \o pathParts[2]
                      \o <<"/", "m", "a", "i", "n", "/">> \o joinSlash(SubSeq(pathParts, 3, Len(pathParts)))
               ELSE replaceCdnHost(targetUrl)
          ELSE replaceCdnHost(targetUrl)

\* ------------------------------------------------------------ CacheManager
CacheKeys == {"k1", "k2"}

\* A cached datum: its JavaScript kind, an identity and its size in bytes.
Null == [kind |-> "null", id |-> 0, bytes |-> 0]
CacheData ==
  { [kind |-> "string", id |-> 1, bytes |-> 2],
    [kind |-> "buffer", id |-> 2, bytes |-> 1],
    [kind |-> "stream", id |-> 3, bytes |-> 0] }
TtlArgs == {0, 1, 2}

\* data instanceof EventEmitter || (object with pipe or on)
isStream(data) == data.kind = "stream"

_estimateSize(data) ==
  IF data.kind \in {"buffer", "string", "object"} THEN data.bytes ELSE 0

\* Date.now() - item.timestamp > item.maxAge, with the comparison off by one
expiredAtTtl(item, t) == t - item.timestamp >= item.maxAge

\* Date.now() - item.timestamp > item.maxAge
expired(item, t) == t - item.timestamp > item.maxAge

\* maxAge || config.cache.maxAge
effectiveMaxAge(ttl) == IF ttl = 0 THEN maxAge ELSE ttl

\* What get(key) returns at time t.
getResult(c, key, t) ==
  IF ~cacheEnabled THEN Null
  ELSE IF key \notin DOMAIN c THEN Null
  ELSE IF expired(c[key], t) THEN Null
  ELSE c[key].data

\* The map after get(key) at time t: an expired entry is deleted.
getCache(c, key, t) ==
  IF cacheEnabled /\ key \in DOMAIN c /\ expired(c[key], t)
  THEN [k \in DOMAIN c \ {key} |-> c[k]]
  ELSE c

\* set() without its guard against stream-like values
setCacheAnything(c, key, data, ttl, t) ==
  IF ~cacheEnabled THEN c
  ELSE [k \in DOMAIN c \cup {key} |->
          IF k = key
          THEN [data |-> data, timestamp |-> t, maxAge |-> effectiveMaxAge(ttl)]
          ELSE c[k]]

\* The map after set(key, data, ttl) at time t.
setCache(c, key, data, ttl, t) ==
  IF ~cacheEnabled \/ isStream(data) THEN c
  ELSE [k \in DOMAIN c \cup {key} |->
          IF k = key
          THEN [data |-> data, timestamp |-> t, maxAge |-> effectiveMaxAge(ttl)]
          ELSE c[k]]

\* this.stats after get(key) at time t
getStats(s, c, key, t) ==
  IF ~cacheEnabled THEN s
  ELSE IF key \in DOMAIN c /\ ~expired(c[key], t) THEN [s EXCEPT !.hits = @ + 1]
  ELSE [s EXCEPT !.misses = @ + 1]

\* this.stats after set(key, data, ...)
setStats(s, c, key, data) ==
  IF ~cacheEnabled \/ isStream(data) THEN s
  ELSE [s EXCEPT !.size =
          (IF key \in DOMAIN c THEN @ - _estimateSize(c[key].data) ELSE @)
          + _estimateSize(data)]

RECURSIVE SumSizes(_, _)
SumSizes(c, ks) ==
  IF ks = {} THEN 0
  ELSE LET k == CHOOSE x \in ks : TRUE
       IN _estimateSize(c[k].data) + SumSizes(c, ks \ {k})

\* cacheOp when the last call was not a get().
NoGet == [op |-> "none", key |-> "k1", result |-> Null, at |-> 0]

CacheInit ==
  /\ cache = << >>
  /\ stats = [hits |-> 0, misses |-> 0, size |-> 0]
  /\ now = 0
  /\ cacheOp = NoGet
  /\ lastSet = [k \in CacheKeys |-> [valid |-> FALSE, data |-> Null, ttl |-> 0, at |-> 0]]

CacheManager_get(key) ==
  /\ stats.hits + stats.misses < MaxGets
  /\ cacheOp' = [op |-> "get", key |-> key, result |-> getResult(cache, key, now),
                 at |-> now]
  /\ stats' = getStats(stats, cache, key, now)
  /\ cache' = getCache(cache, key, now)
  /\ UNCHANGED <<now, lastSet>>

CacheManager_set(key, data, ttl) ==
  /\ cache' = setCache(cache, key, data, ttl, now)
  /\ stats' = setStats(stats, cache, key, data)
  /\ lastSet' = [lastSet EXCEPT ![key] =
                   IF isStream(data)
                   THEN [valid |-> FALSE, data |-> Null, ttl |-> 0, at |-> 0]
                   ELSE [valid |-> TRUE, data |-> data, ttl |-> ttl, at |-> now]]
  /\ cacheOp' = NoGet
  /\ UNCHANGED now

CacheManager_cleanup ==
  /\ \E k \in DOMAIN cache : expired(cache[k], now)
  /\ LET gone == {k \in DOMAIN cache : expired(cache[k], now)}
     IN /\ cache' = [k \in DOMAIN cache \ gone |-> cache[k]]
        /\ stats' = [stats EXCEPT !.size = @ - SumSizes(cache, gone)]
  /\ cacheOp' = NoGet
  /\ UNCHANGED <<now, lastSet>>

CacheManager_clear ==
  /\ DOMAIN cache # {}
  /\ cache' = << >>
  /\ stats' = [stats EXCEPT !.size = 0]
  /\ lastSet' = [k \in CacheKeys |-> [valid |-> FALSE, data |-> Null, ttl |-> 0, at |-> 0]]
  /\ cacheOp' = NoGet
  /\ UNCHANGED now

Tick ==
  /\ now < MaxTime
  /\ now' = now + 1
  /\ UNCHANGED <<cache, stats, cacheOp, lastSet>>

CacheNext ==
  \/ \E k \in CacheKeys : CacheManager_get(k)
  \/ \E k \in CacheKeys, d \in CacheData, ttl \in TtlArgs : CacheManager_set(k, d, ttl)
  \/ CacheManager_cleanup
  \/ CacheManager_clear
  \/ Tick


\* --------------------------------------------------------------- blacklist
MaxMtime == 3

s_or == <<"o", "/", "r">>
s_Or == <<"O", "/", "r">>
s_OR == <<"O", "/", "R">>
s_wl == <<"w", "/", "l">>
s_WL == <<"W", "/", "L">>
s_pq == <<"p", "/", "q">>
s_xy == <<"x", "/", "y">>

\* defaultConfig
defaultConfig ==
  [enabled |-> FALSE, repositories |-> {}, keywords |-> {},
   whitelistRepositories |-> {}, logBlocked |-> TRUE, statusCode |-> 451]

\* The policies a blacklist.json may hold.
PolicyA ==
  [enabled |-> TRUE, repositories |-> {s_Or, s_wl}, keywords |-> {<<"x">>},
   whitelistRepositories |-> {s_WL}, logBlocked |-> TRUE, statusCode |-> 451]
PolicyB == [PolicyA EXCEPT !.enabled = FALSE]
PolicyC ==
  [enabled |-> TRUE, repositories |-> {s_pq, << >>}, keywords |-> {<<"L">>},
   whitelistRepositories |-> {s_or}, logBlocked |-> FALSE, statusCode |-> 0]
Policies == {PolicyA, PolicyB, PolicyC}

\* The repository paths isRepoBlacklisted is called with.
RepoPaths == {s_or, s_OR, s_wl, s_pq, s_xy, << >>}

inWhitelist(config, repoPath) ==
  \E r \in config.whitelistRepositories : toLowerCase(r) = toLowerCase(repoPath)
inRepositories(config, repoPath) ==
  \E r \in config.repositories : toLowerCase(r) = toLowerCase(repoPath)
matchesKeyword(config, repoPath) ==
  \E k \in config.keywords : includes(toLowerCase(repoPath), toLowerCase(k))

\* isRepoBlacklisted's evaluation comparing the path as it was given
evaluateCaseSensitive(config, repoPath) ==
  IF \E r \in config.whitelistRepositories : toLowerCase(r) = repoPath THEN FALSE
  ELSE IF \E r \in config.repositories : toLowerCase(r) = repoPath THEN TRUE
  ELSE \E k \in config.keywords : includes(repoPath, toLowerCase(k))

\* isRepoBlacklisted past the verdict cache: whitelist, repositories, keywords
evaluate(config, repoPath) ==
  IF inWhitelist(config, repoPath) THEN FALSE
  ELSE IF inRepositories(config, repoPath) THEN TRUE
  ELSE matchesKeyword(config, repoPath)

\* What isRepoBlacklisted(repoPath) returns.
isRepoBlacklistedResult(config, memo, repoPath) ==
  IF repoPath = << >> \/ ~config.enabled THEN FALSE
  ELSE IF repoPath \in DOMAIN memo THEN memo[repoPath]
  ELSE evaluate(config, repoPath)

\* The verdict cache after isRepoBlacklisted(repoPath).
isRepoBlacklistedMemo(config, memo, repoPath) ==
  IF repoPath = << >> \/ ~config.enabled \/ repoPath \in DOMAIN memo THEN memo
  ELSE [q \in DOMAIN memo \cup {repoPath} |->
          IF q = repoPath THEN evaluate(config, repoPath) ELSE memo[q]]

\* reloadConfig without checkedPathsCache.clear()
reloadConfigKeepMemo(st) ==
  LET f == IF st.file.state = "missing"
           THEN [state |-> "ok", content |-> defaultConfig, mtime |-> st.file.mtime + 1]
           ELSE st.file
  IN IF f.state = "ok"
     THEN [config |-> f.content, memo |-> st.memo, lastMod |-> f.mtime, file |-> f,
           ok |-> TRUE]
     ELSE [config |-> defaultConfig, memo |-> st.memo, lastMod |-> st.lastMod,
           file |-> f, ok |-> FALSE]

\* reloadConfig: the state [config, memo, lastMod, file] after it, and whether
\* it succeeded. A missing file is first written with the default policy.
reloadConfig(st) ==
  LET f == IF st.file.state = "missing"
           THEN [state |-> "ok", content |-> defaultConfig, mtime |-> st.file.mtime + 1]
           ELSE st.file
  IN IF f.state = "ok"
     THEN [config |-> f.content, memo |-> << >>, lastMod |-> f.mtime, file |-> f,
           ok |-> TRUE]
     ELSE [config |-> defaultConfig, memo |-> st.memo, lastMod |-> st.lastMod,
           file |-> f, ok |-> FALSE]

\* checkConfigUpdated reloading whenever the file exists
checkConfigUpdatedAlways(st) == reloadConfig(st)

\* checkConfigUpdated: reload when the file is missing or its mtime advanced
checkConfigUpdated(st) ==
  IF st.file.state = "missing" THEN reloadConfig(st)
  ELSE IF st.file.mtime > st.lastMod THEN reloadConfig(st)
  ELSE [st EXCEPT !.ok = FALSE]

blState == [config |-> blacklistConfig, memo |-> checkedPathsCache,
            lastMod |-> configLastModified, file |-> file, ok |-> FALSE]

\* The blacklist variables after a (re)load attempt that ended in state st.
blSetState(st) ==
  /\ blacklistConfig' = st.config
  /\ checkedPathsCache' = st.memo
  /\ configLastModified' = st.lastMod
  /\ file' = st.file
  /\ lastGood' = IF st.ok THEN [valid |-> TRUE, policy |-> st.config] ELSE lastGood

NoPath == << >>

MissingFile == [state |-> "missing", content |-> defaultConfig, mtime |-> 0]
InitialFiles ==
  {MissingFile, [state |-> "corrupt", content |-> defaultConfig, mtime |-> 1]}
  \cup {[state |-> "ok", content |-> p, mtime |-> 1] : p \in Policies}

\* The module's start: reloadConfig() runs once on the file f that is there.
BlStart(f) ==
    LET st == reloadConfig([config |-> defaultConfig, memo |-> << >>, lastMod |-> 0,
                            file |-> f, ok |-> FALSE])
    IN /\ blacklistConfig = st.config
       /\ checkedPathsCache = st.memo
       /\ configLastModified = st.lastMod
       /\ file = st.file
       /\ lastGood = IF st.ok THEN [valid |-> TRUE, policy |-> st.config]
                     ELSE [valid |-> FALSE, policy |-> defaultConfig]
       /\ blOp = [op |-> "init", path |-> NoPath, result |-> st.ok, status |-> 0]
       /\ fileChanged = FALSE

BlInit == \E f \in InitialFiles : BlStart(f)

\* The file is edited outside the server: a new policy, or content that does not parse.
EditFile(content, state) ==
  /\ file.mtime < MaxMtime
  /\ file' = [state |-> state, content |-> content, mtime |-> file.mtime + 1]
  /\ fileChanged' = TRUE
  /\ blOp' = [op |-> "edit", path |-> NoPath, result |-> FALSE, status |-> 0]
  /\ UNCHANGED <<blacklistConfig, checkedPathsCache, configLastModified, lastGood>>

\* setInterval(checkConfigUpdated, configCheckInterval)
CheckConfigUpdated ==
  LET st == checkConfigUpdated(blState)
  IN /\ blSetState(st)
     /\ blOp' = [op |-> "checkConfigUpdated", path |-> NoPath, result |-> st.ok,
                 status |-> 0]
     /\ fileChanged' = FALSE

\* forceReloadConfig (POST /admin/blacklist/reload)
ForceReloadConfig ==
  LET st == reloadConfig(blState)
  IN /\ blSetState(st)
     /\ blOp' = [op |-> "forceReloadConfig", path |-> NoPath, result |-> st.ok,
                 status |-> 0]
     /\ fileChanged' = FALSE

\* A caller (proxy.js shouldBlockRequest) asks isRepoBlacklisted(repoPath).
IsRepoBlacklisted(repoPath) ==
  /\ blOp' = [op |-> "isRepoBlacklisted", path |-> repoPath,
              result |-> isRepoBlacklistedResult(blacklistConfig, checkedPathsCache, repoPath),
              status |-> 0]
  /\ checkedPathsCache' = isRepoBlacklistedMemo(blacklistConfig, checkedPathsCache, repoPath)
  /\ UNCHANGED <<blacklistConfig, configLastModified, file, lastGood, fileChanged>>

BlNext ==
  \/ \E p \in Policies : EditFile(p, "ok")
  \/ EditFile(defaultConfig, "corrupt")
  \/ CheckConfigUpdated
  \/ ForceReloadConfig
  \/ \E p \in RepoPaths : IsRepoBlacklisted(p)

\* ------------------------------------------------- blacklist, per request
\* s.split('/'), empty parts included
RECURSIVE splitAll(_)
splitAll(s) ==
  LET i == indexOf(s, <<"/">>)
  IN IF i = 0 THEN <<s>>
     ELSE <<SubSeq(s, 1, i - 1)>> \o splitAll(SubSeq(s, i + 1, Len(s)))

SkippedPrefixes ==
  {<<"/", "a", "p", "i", "/">>, <<"/", "r", "a", "w", "/">>, <<"/", "a", "s", "s", "e", "t", "s", "/">>, <<"/", "r", "e", "l", "e", "a", "s", "e", "s", "/">>, <<"/", "c", "o", "d", "e", "l", "o", "a", "d", "/">>, <<"/", "a", "d", "m", "i", "n", "/">>}

\* extractRepoPath past its call of checkConfigUpdated; NoPath stands for null
extractRepoPath(urlPath) ==
  IF \E p \in SkippedPrefixes : startsWith(urlPath, p) THEN NoPath
  ELSE LET parts == splitSlash(urlPath)
       IN IF Len(parts) < 2 THEN NoPath
          ELSE toLowerCase(parts[1] \o <<"/">> \o parts[2])

\* isRepoBlacklisted(repoPath) in blacklist state st: the verdict and the state after
isRepoBlacklisted(st, repoPath) ==
  [blocked |-> isRepoBlacklistedResult(st.config, st.memo, repoPath),
   st |-> [st EXCEPT !.memo = isRepoBlacklistedMemo(st.config, st.memo, repoPath)]]

\* checkConfigUpdated as a request runs it: a successful reload stays recorded
checkedForRequest(st) ==
  LET st1 == checkConfigUpdated(st) IN [st1 EXCEPT !.ok = st1.ok \/ st.ok]

shouldBlockPath(st, urlPath) ==
  IF ~st.config.enabled THEN [blocked |-> FALSE, st |-> st]
  ELSE LET st1 == checkedForRequest(st)
           repoPath == extractRepoPath(urlPath)
       IN IF repoPath = NoPath THEN [blocked |-> FALSE, st |-> st1]
          ELSE isRepoBlacklisted(st1, repoPath)

\* blockBlacklistedContent: whether the server answered the blocked response
blockBlacklistedContent(st, url) ==
  IF ~st.config.enabled THEN [blocked |-> FALSE, st |-> st]
  ELSE LET st1 == checkedForRequest(st)
           repoPath == extractRepoPath(url)
       IN IF repoPath # NoPath THEN isRepoBlacklisted(st1, repoPath)
          ELSE [blocked |-> FALSE, st |-> st1]

ApiSubPaths ==
  {<<"i", "s", "s", "u", "e", "s">>, <<"p", "u", "l", "l", "s">>, <<"b", "r", "a", "n", "c", "h", "e", "s">>, <<"t", "a", "g", "s">>, <<"r", "e", "l", "e", "a", "s", "e", "s">>, <<"c", "o", "m", "m", "i", "t", "s">>,
   <<"c", "o", "n", "t", "e", "n", "t", "s">>}

extractRepoFromApiUrl(url) ==
  LET sg == splitAll(url)
      other(i) == /\ i + 2 <= Len(sg)
                  /\ sg[i] # << >> /\ sg[i + 1] # << >>
                  /\ \E k \in ApiSubPaths : startsWith(sg[i + 2], k)
  IN IF ~startsWith(url, <<"/", "a", "p", "i", "/">>) THEN NoPath
     ELSE IF includes(url, <<"/", "_", "p", "r", "i", "v", "a", "t", "e">>) THEN NoPath
     ELSE IF Len(sg) >= 5 /\ sg[3] = <<"r", "e", "p", "o", "s">> /\ sg[4] # << >> /\ sg[5] # << >>
     THEN toLowerCase(sg[4] \o <<"/">> \o sg[5])
     ELSE IF \E i \in 2..Len(sg) : other(i)
     THEN LET i == CHOOSE k \in 2..Len(sg) : other(k) /\ \A j \in 2..(k - 1) : ~other(j)
          IN toLowerCase(sg[i] \o <<"/">> \o sg[i + 1])
     ELSE NoPath

extractRepoFromRawUrl(url) ==
  IF ~startsWith(url, <<"/", "r", "a", "w", "/">>) THEN NoPath
  ELSE LET parts == splitAll(SubSeq(url, 6, Len(url)))
       IN IF Len(parts) >= 2 THEN toLowerCase(parts[1] \o <<"/">> \o parts[2])
          ELSE NoPath

shouldBlockRequest(st, url) ==
  LET r1 == shouldBlockPath(st, url)
      repoPath == IF startsWith(url, <<"/", "a", "p", "i", "/">>) THEN extractRepoFromApiUrl(url)
                  ELSE extractRepoFromRawUrl(url)
  IN IF r1.blocked THEN r1
     ELSE IF repoPath # NoPath THEN isRepoBlacklisted(r1.st, repoPath)
     ELSE r1

\* createBlockedResponse().statusCode
blockedStatus(config) == IF config.statusCode = 0 THEN 451 ELSE config.statusCode

\* ------------------------------------------------------------ axios client
\* The two createAxiosClient of the repository: src/src/axiosClient.js ("linear")
\* and src/unnamed/part_000 ("backoff"). A call is followed from the request
\* interceptor through each attempt to the promise's settlement.
MaxAttempts == 7

retryDelay == 1000

Clients ==
  {[impl |-> "linear",  name |-> "default",   retry |-> 3],
   [impl |-> "linear",  name |-> "largeFile", retry |-> 5],
   [impl |-> "linear",  name |-> "static",    retry |-> 3],
   [impl |-> "backoff", name |-> "default",   retry |-> 3],
   [impl |-> "backoff", name |-> "largeFile", retry |-> 2],
   [impl |-> "backoff", name |-> "static",    retry |-> 5]}

Methods == {"GET", "POST", "PUT", "PATCH"}

\* What an attempt can fail with; status 0 stands for no response at all. An
\* error that carries a response comes from the status check and has its code.
NoError == [code |-> "none", status |-> 0]
Failures ==
  {[code |-> "ECONNRESET",       status |-> 0],
   [code |-> "ECONNABORTED",     status |-> 0],
   [code |-> "ETIMEDOUT",        status |-> 0],
   [code |-> "ENOTFOUND",        status |-> 0],
   [code |-> "ERR_BAD_REQUEST",  status |-> 404],
   [code |-> "ERR_BAD_RESPONSE", status |-> 502]}

NetworkCodes == {"ECONNRESET", "ECONNABORTED", "ETIMEDOUT"}

\* The request interceptor, run for every attempt, first or re-issued: it sets
\* config.retryCount = 0 in axiosClient.js and leaves config.currentRetryCount
\* alone in part_000.
requestInterceptor(impl, count) == IF impl = "linear" THEN 0 ELSE count

\* The error interceptor's decision for a failed attempt of a call whose counter
\* is count: whether it re-issues, the counter afterwards and the delay it waits.
errorInterceptor(client, count, err) ==
  IF client.impl = "linear"
  THEN IF err.code \in NetworkCodes /\ count < client.retry
       THEN [retry |-> TRUE, count |-> count + 1, delay |-> retryDelay * (count + 1)]
       ELSE [retry |-> FALSE, count |-> count, delay |-> 0]
  ELSE IF count >= client.retry
       THEN [retry |-> FALSE, count |-> count, delay |-> 0]
       ELSE LET isNetworkError == err.code \in NetworkCodes \/ err.status = 0
                shouldRetry == isNetworkError \/ err.status >= 500
            IN IF shouldRetry
               THEN [retry |-> TRUE, count |-> count + 1,
                     delay |-> retryDelay * 2 ^ count]
               ELSE [retry |-> FALSE, count |-> count, delay |-> 0]

\* Lengths of the body of an upstream error response, in characters
BodyLengths == {0, 999, 1000, 5000}

\* The length of enhancedError.response.data for a Buffer of len characters: the
\* text when it is shorter than 1000, the marker of eight characters otherwise,
\* and no data for an empty body
excerptLength(len) == IF len = 0 THEN 0 ELSE IF len < 1000 THEN len ELSE 8

\* What the error interceptor rejects with when it does not re-issue: the
\* enhancedError it builds or the error object axios handed it, and the length
\* of the response body the rejection carries. In part_000 an error that is not
\* worth a retry is rejected as it came while retries are left.
rejection(client, count, err, len) ==
  IF client.impl = "backoff" /\ count < client.retry
  THEN [kind |-> "raw", data |-> len]
  ELSE [kind |-> "enhanced", data |-> excerptLength(len)]

NoRejection == [kind |-> "none", data |-> 0]

RetryInit ==
  call = [st |-> "idle", client |-> CHOOSE c \in Clients : TRUE, method |-> "GET",
          attempts |-> 0, count |-> 0, delays |-> << >>, err |-> NoError,
          reissuedAfter |-> {}, rejection |-> NoRejection]

\* client(config): the request interceptor runs and the first attempt goes out.
ClientRequest(client, method) ==
  /\ call.st = "idle"
  /\ call' = [call EXCEPT !.st = "inflight", !.client = client, !.method = method,
                          !.attempts = 1,
                          !.count = requestInterceptor(client.impl, 0)]
  /\ UNCHANGED <<cacheVars, blVars, proxyVars>>

\* The attempt in flight gets a 2xx answer: the promise resolves.
AttemptSucceeds ==
  /\ call.st = "inflight"
  /\ call' = [call EXCEPT !.st = "resolved"]
  /\ UNCHANGED <<cacheVars, blVars, proxyVars>>

\* The attempt in flight fails with err: the error interceptor either rejects
\* or starts the timer of a re-issue.
AttemptFails(err) ==
  /\ call.st = "inflight"
  /\ call.attempts < MaxAttempts
  /\ \E len \in IF err.status = 0 THEN {0} ELSE BodyLengths :
       LET d == errorInterceptor(call.client, call.count, err)
       IN call' = [call EXCEPT !.st = IF d.retry THEN "waiting" ELSE "rejected",
                               !.count = d.count,
                               !.err = err,
                               !.delays = IF d.retry THEN Append(@, d.delay) ELSE @,
                               !.rejection = IF d.retry THEN NoRejection
                                             ELSE rejection(call.client, call.count, err, len)]
  /\ UNCHANGED <<cacheVars, blVars, proxyVars>>

\* The timer fires: client(config) again, through the request interceptor.
RetryTimerFires ==
  /\ call.st = "waiting"
  /\ call' = [call EXCEPT !.st = "inflight",
                          !.attempts = @ + 1,
                          !.count = requestInterceptor(call.client.impl, @),
                          !.reissuedAfter = @ \cup {call.err}]
  /\ UNCHANGED <<cacheVars, blVars, proxyVars>>

RetryNext ==
  \/ \E c \in Clients, m \in Methods : ClientRequest(c, m)
  \/ AttemptSucceeds
  \/ \E e \in Failures : AttemptFails(e)
  \/ RetryTimerFires

\* ------------------------------------------------ server, route, handlers
\* One inbound request, followed from the server's callback through route()
\* and its handler to the response. An upstream call is one call of an axios
\* client as its caller sees it: it resolves or it rejects.
MaxRequests == 2
MaxClock == 25
MaxInFlight == 2
MaxBody == 2

\* The requests the server may have in flight at once
Slots == 1..MaxInFlight

\* The request in the first slot
req == reqs[1]

\* Inbound request URLs.
u_repo == <<"/", "O", "/", "r">>
u_repoJs == <<"/", "O", "/", "r", "/", "a", ".", "j", "s">>
u_repoCdn == <<"/", "O", "/", "r", "/", "h", "t", "t", "p", ":", "/", "/", "c", "d", "n", ".", "z", "/", "a", ".", "j", "s">>
u_site == <<"/", "p", "/", "q">>
u_raw == <<"/", "r", "a", "w", "/", "p", "/", "q", "/", "m", "/", "f", ".", "t", "x", "t">>
u_rawJs == <<"/", "r", "a", "w", "/", "p", "/", "q", "/", "m", "/", "f", ".", "j", "s">>
u_frag == <<"/", "f", "r", "a", "g", "m", "e", "n", "t", "/", "h", "t", "t", "p", "s", ":", "/", "/", "c", "d", "n", ".", "z", "/", "p", "/", "q", "/", "e", "x", "p", "a", "n", "d", "e", "d", "_", "a", "s", "s", "e", "t", "s", "/", "a">>
u_fragMd == <<"/", "f", "r", "a", "g", "m", "e", "n", "t", "/", "c", "d", "n", ".", "z", "/", "p", "/", "q", "/", "e", "x", "p", "a", "n", "d", "e", "d", "_", "a", "s", "s", "e", "t", "s", "/", "a", ".", "m", "d">>
u_fragYml == <<"/", "f", "r", "a", "g", "m", "e", "n", "t", "/", "c", "d", "n", ".", "z", "/", "p", "/", "q", "/", "e", "x", "p", "a", "n", "d", "e", "d", "_", "a", "s", "s", "e", "t", "s", "/", "a", ".", "y", "m", "l">>
u_fragRetry == <<"/", "f", "r", "a", "g", "m", "e", "n", "t", "/", "c", "d", "n", ".", "r", "e", "t", "r", "y", "/", "p", "/", "q", "/", "e", "x", "p", "a", "n", "d", "e", "d", "_", "a", "s", "s", "e", "t", "s", "/", "a">>
u_fragPlain == <<"/", "f", "r", "a", "g", "m", "e", "n", "t", "/", "p", "/", "q", "/", "a", ".", "t", "x", "t">>
u_fragBad == <<"/", "f", "r", "a", "g", "m", "e", "n", "t", "/", "h", "t", "t", "p", "z">>
u_favicon == <<"/", "f", "a", "v", "i", "c", "o", "n", ".", "i", "c", "o">>
u_asset == <<"/", "a", "s", "s", "e", "t", "s", "/", "a", ".", "c", "s", "s">>
Urls == {u_repo, u_repoJs, u_repoCdn, u_site, u_raw, u_rawJs, u_frag, u_fragMd,
         u_fragYml, u_fragRetry, u_fragPlain, u_fragBad, u_favicon, u_asset}

\* Requests that reach each of route()'s handlers
u_home == <<"/">>
u_api == <<"/", "a", "p", "i", "/", "r", "e", "p", "o", "s", "/", "p", "/", "q">>
u_assetMap == <<"/", "a", "s", "s", "e", "t", "s", "/", "a", ".", "m", "a", "p">>
u_admin == <<"/", "a", "d", "m", "i", "n", "/", "s", "t", "a", "t", "s">>
u_release == <<"/", "r", "e", "l", "e", "a", "s", "e", "s", "/", "p", "/", "q", "/", "f", ".", "z", "i", "p">>
u_codeload == <<"/", "c", "o", "d", "e", "l", "o", "a", "d", "/", "p", "/", "q", "/", "z", "i", "p", "/", "m">>
u_rawListed == <<"/", "r", "a", "w", "/", "O", "/", "r", "/", "m", "/", "f", ".", "t", "x", "t">>
u_apiPrivate == <<"/", "a", "p", "i", "/", "r", "e", "p", "o", "s", "/", "O", "/", "r", "/", "_", "p", "r", "i", "v", "a", "t", "e", "/", "k">>
u_repoQuery == <<"/", "O", "/", "r", "?", "t", "a", "b", "=", "a">>
u_rawQuery == <<"/", "r", "a", "w", "/", "O", "/", "r", "?", "a">>
u_codeloadListed == <<"/", "c", "o", "d", "e", "l", "o", "a", "d", "/", "O", "/", "r", "/", "z", "i", "p", "/", "m">>
u_releaseListed == <<"/", "r", "e", "l", "e", "a", "s", "e", "s", "/", "O", "/", "r", "/", "f", ".", "z", "i", "p">>
u_fragListed == <<"/", "f", "r", "a", "g", "m", "e", "n", "t", "/", "h", "t", "t", "p", "s", ":", "/", "/", "g", "i", "t", "h", "u", "b", ".", "c", "o", "m", "/", "O", "/", "r", "/", "b">>
u_fragCdnGh == <<"/", "f", "r", "a", "g", "m", "e", "n", "t", "/", "c", "d", "n", ".", "g", "h", ".", "s", "q", "u", "a", "r", "e", "f", "i", "e", "l", "d", ".", "l", "t", "d", "/", "p", "/", "q", "/", "e", "x", "p", "a", "n", "d", "e", "d", "_", "a", "s", "s", "e", "t", "s", "/", "a">>
RouteUrls == {u_home, u_site, u_api, u_raw, u_rawJs, u_asset, u_assetMap, u_admin,
              u_release, u_codeload, u_frag, u_fragCdnGh, u_rawListed, u_apiPrivate}

RequestMethods == {"GET", "OPTIONS"}
RouteMethods == {"GET", "HEAD", "OPTIONS"}

\* req.method as a string
methodString(m) ==
  IF m = "GET" THEN <<"G", "E", "T">> ELSE IF m = "HEAD" THEN <<"H", "E", "A", "D">>
  ELSE IF m = "POST" THEN <<"P", "O", "S", "T">> ELSE IF m = "PUT" THEN <<"P", "U", "T">>
  ELSE IF m = "PATCH" THEN <<"P", "A", "T", "C", "H">> ELSE <<"O", "P", "T", "I", "O", "N", "S">>

\* The methods whose body the API and site handlers read
BodyMethods == {"POST", "PUT", "PATCH"}

\* The bytes of an inbound body: a letter, and the two bytes of U+00E9 in UTF-8
Bytes == {"a", "C3", "A9"}

\* chunk.toString(): the bytes of one chunk decoded as UTF-8, each byte that
\* is no part of a complete sequence within the chunk becoming U+FFFD
RECURSIVE toString(_)
toString(chunk) ==
  IF chunk = << >> THEN << >>
  ELSE IF chunk[1] = "a" THEN <<"a">> \o toString(Tail(chunk))
  ELSE IF chunk[1] = "C3" /\ Len(chunk) >= 2 /\ chunk[2] = "A9"
  THEN <<"U+00E9">> \o toString(Tail(Tail(chunk)))
  ELSE <<"U+FFFD">> \o toString(Tail(chunk))

\* The bytes on the wire of a request whose options.data is the string str
RECURSIVE utf8(_)
utf8(str) ==
  IF str = << >> THEN << >>
  ELSE (IF str[1] = "U+00E9" THEN <<"C3", "A9">>
        ELSE IF str[1] = "U+FFFD" THEN <<"EF", "BF", "BD">>
        ELSE <<str[1]>>) \o utf8(Tail(str))

\* The Authorization and Cookie headers of an inbound request: none, or those
\* of one of two accounts
NoCredentials == "none"
Credentials == {NoCredentials, "alice", "bob"}

\* fs.existsSync for the request's path under public/ and under the working directory
NoFiles == [public |-> FALSE, cwd |-> FALSE]
Files == [public : BOOLEAN, cwd : BOOLEAN]

\* How an upstream call ends: the upstream's status and body, or no response at
\* all (status 0) and the client's error code. kind is how a call with the
\* default validateStatus ends: "ok" resolves, "error" rejects.
Outcomes ==
  {[kind |-> "ok", status |-> 200, data |-> "B1", code |-> "none"],
   [kind |-> "ok", status |-> 200, data |-> "B2", code |-> "none"],
   [kind |-> "error", status |-> 404, data |-> "U404", code |-> "ERR_BAD_REQUEST"],
   [kind |-> "error", status |-> 0, data |-> "none", code |-> "ENOTFOUND"]}

\* error.message of a rejected call of url
errorMessage(o, url) ==
  IF o.code = "ENOTFOUND" THEN <<"g", "e", "t", "a", "d", "d", "r", "i", "n", "f", "o", " ", "E", "N", "O", "T", "F", "O", "U", "N", "D", " ">> \o hostOf(url)
  ELSE <<"R", "e", "q", "u", "e", "s", "t", " ", "f", "a", "i", "l", "e", "d", " ", "w", "i", "t", "h", " ", "s", "t", "a", "t", "u", "s", " ", "c", "o", "d", "e", " ", "4", "0", "4">>

\* The response object a resolved call yields, as the cache holds it
responseOf(o) ==
  [kind |-> "object", id |-> 0, bytes |-> 2, status |-> o.status, data |-> o.data]

ReqIdle ==
  [st |-> "idle", method |-> "GET", url |-> << >>, handler |-> "none",
   stage |-> "none", targetUrl |-> << >>, pending |-> << >>, key |-> << >>,
   hit |-> FALSE, calls |-> << >>, outcomes |-> << >>, status |-> 0, data |-> "none",
   records |-> << >>, location |-> << >>, credentials |-> NoCredentials,
   inbound |-> << >>, body |-> << >>, headersSent |-> FALSE, writes |-> 0]

\* res.end(...): the response is written
respond(r, handler, status, data) ==
  [r EXCEPT !.st = "done", !.handler = handler, !.status = status, !.data = data,
            !.pending = << >>, !.headersSent = TRUE, !.writes = @ + 1]

\* res.writeHead(302, {Location: location}); res.end()
redirect(r, handler, location) ==
  [respond(r, handler, 302, "empty") EXCEPT !.location = location]

\* req.headers.host: the proxy's own host, as the client named it
host == <<"p", "r", "o", "x", "y", ".", "t", "e", "s", "t">>

\* addRequiredHeaders that leaves the headers of the inbound request as they are
addRequiredHeadersKeep(hostHeader, targetHost) == hostHeader

\* addRequiredHeaders(headers, targetHost), as far as the host header goes
addRequiredHeaders(hostHeader, targetHost) ==
  IF targetHost # << >> THEN targetHost ELSE hostHeader

\* The Host header in the options of a handler's call of url, << >> when the
\* options name none. The handlers with a configured upstream pass
\* addRequiredHeaders the host of that upstream, on the assets handler's
\* second call too; the fragment and CDN branches delete the inbound host and
\* name the host of the raw-content URL on their last call.
hostHeader(handler, stage, url) ==
  LET upstream == IF handler = "api" THEN apiUrl
                  ELSE IF handler = "raw" THEN rawUrl
                  ELSE IF handler = "releases" THEN releaseUrl
                  ELSE IF handler = "assets" THEN assetsUrl
                  ELSE IF handler = "codeload" THEN codeloadUrl
                  ELSE baseUrl
  IN IF handler \in {"api", "raw", "releases", "assets", "codeload", "github"}
          /\ stage \in {"first", "fallback"}
     THEN addRequiredHeaders(host, hostOf(upstream))
     ELSE IF handler \in {"fragment", "cdn"} /\ stage = "fallback" THEN hostOf(url)
     ELSE << >>

\* An upstream call goes out. host: the Host header on the wire, which the HTTP
\* library takes from the URL when the options name none.
callUpstream(r, handler, stage, url) ==
  [r EXCEPT !.st = "upstream", !.handler = handler, !.stage = stage, !.pending = url,
            !.calls = Append(@, [stage |-> stage, url |-> url,
                                 host |-> IF hostHeader(handler, stage, url) = << >>
                                          THEN hostOf(url)
                                          ELSE hostHeader(handler, stage, url),
                                 data |-> IF handler \in {"api", "github"}
                                               /\ stage = "first"
                                          THEN utf8(r.body) ELSE << >>,
                                 credentials |-> r.credentials])]

\* recordProxyRequest(req, startTime, statusCode, repository), and the datapoint
\* handleAdminRequest records: one metrics datapoint for the request
recordProxyRequest(r, statusCode) == [r EXCEPT !.records = Append(@, statusCode)]

\* The handlers route() picks from, /admin/ aside
RouteHandlers == {"api", "raw", "releases", "assets", "codeload", "fragment", "github"}

\* The handlers that call upstream through getOrSetCache
CachingHandlers == {"api", "raw", "assets", "fragment", "github"}

\* validateStatus of the call a handler makes in a stage: whether the client
\* resolves with the upstream's reply o (it rejects otherwise)
validateStatus(handler, stage, o) ==
  IF o.status = 0 THEN FALSE
  ELSE IF stage = "first" /\ handler = "github" THEN TRUE
  ELSE IF stage = "first" /\ handler \in {"api", "assets"} THEN o.status < 500
  ELSE o.status >= 200 /\ o.status < 300

\* The CDN URL the server's callback extracts from req.url, "" when it finds none
serverCdnUrl(url) ==
  LET i1 == indexOf(url, <<"h", "t", "t", "p", ":", "/", "/", "c", "d", "n", ".">>)
      i2 == indexOf(url, <<"h", "t", "t", "p", "s", ":", "/", "/", "c", "d", "n", ".">>)
      f == indexOf(url, <<"/", "f", "r", "a", "g", "m", "e", "n", "t", "/", "c", "d", "n", ".">>)
      stripSlash(u) == IF endsWith(u, <<"/">>) THEN SubSeq(u, 1, Len(u) - 1) ELSE u
  IN IF includes(url, <<"h", "t", "t", "p">>)
     THEN IF i1 = 0 /\ i2 = 0 THEN << >>
          ELSE IF i2 # 0 /\ (i1 = 0 \/ i2 < i1)
          THEN stripSlash(<<"h", "t", "t", "p", "s", ":", "/", "/">> \o SubSeq(url, i2 + 8, Len(url)))
          ELSE stripSlash(<<"h", "t", "t", "p", "s", ":", "/", "/">> \o SubSeq(url, i1 + 7, Len(url)))
     ELSE IF f = 0 \/ f + 14 > Len(url) \/ url[f + 14] = "/" THEN << >>
     ELSE <<"h", "t", "t", "p", "s", ":", "/", "/">> \o SubSeq(url, f + 10, Len(url))

\* expanded_assets without an extension: ".json" is appended
withJsonExtension(u) ==
  IF includes(u, <<"e", "x", "p", "a", "n", "d", "e", "d", "_", "a", "s", "s", "e", "t", "s">>) /\ ~hasAlnumExtension(u) THEN u \o <<".", "j", "s", "o", "n">>
  ELSE u

\* The server's branch for req.url ending in a static extension; the request
\* comes back idle when the branch lets it through to the blacklist and route().
serverStatic(r, fs) ==
  IF r.url = <<"/", "f", "a", "v", "i", "c", "o", "n", ".", "i", "c", "o">>
  THEN IF fs.public THEN respond(r, "favicon", 200, "file")
       ELSE callUpstream(r, "favicon", "favicon", assetsUrl \o <<"/", "f", "a", "v", "i", "c", "o", "n", ".", "i", "c", "o">>)
  ELSE IF includes(r.url, <<"c", "d", "n", ".">>)
  THEN IF serverCdnUrl(r.url) = << >> THEN respond(r, "cdn", 404, "page404")
       ELSE LET cdnUrl == withJsonExtension(serverCdnUrl(r.url))
            IN callUpstream([r EXCEPT !.targetUrl = cdnUrl], "cdn", "first",
                            cdnUrl \o <<"?", "_", "p", "r", "o", "x", "y", "=", "t", "r", "u", "e">>)
  ELSE IF fs.public THEN respond(r, "public", 200, "file")
  ELSE IF ~fs.cwd
  THEN IF startsWith(r.url, <<"/", "a", "s", "s", "e", "t", "s", "/">>)
       THEN callUpstream(r, "serverAssets", "assets",
                         assetsUrl \o SubSeq(r.url, 8, Len(r.url)))
       ELSE respond(r, "notFound", 404, "page404")
  ELSE r

StaticErrorExtensions == StaticExtensions \ {<<"h", "t", "m", "l">>}

\* handleError(error, req, res) for a rejected call, or for a thrown error
\* (status 0, code "none") with the given message
handleError(r, o, message) ==
  LET status == IF o.status # 0 THEN o.status ELSE 500
  IN IF includes(message, <<"C", "o", "n", "t", "e", "n", "t", " ", "S", "e", "c", "u", "r", "i", "t", "y", " ", "P", "o", "l", "i", "c", "y">>) \/ includes(message, <<"C", "S", "P">>)
     THEN respond(r, r.handler, 400, "errorJson")
     ELSE IF includes(r.url, <<"c", "d", "n", ".", "g", "h", ".", "s", "q", "u", "a", "r", "e", "f", "i", "e", "l", "d", ".", "l", "t", "d">>)
               \/ includes(message, <<"c", "d", "n", ".", "g", "h", ".", "s", "q", "u", "a", "r", "e", "f", "i", "e", "l", "d", ".", "l", "t", "d">>)
     THEN redirect(r, r.handler,
                   <<"/", "f", "r", "a", "g", "m", "e", "n", "t">> \o (IF startsWith(r.url, <<"/", "f", "r", "a", "g", "m", "e", "n", "t">>)
                                  THEN SubSeq(r.url, 10, Len(r.url)) ELSE r.url))
     ELSE IF status = 404
     THEN IF \E e \in StaticErrorExtensions : endsWith(toLowerCase(r.url), <<".">> \o e)
          THEN callUpstream(r, r.handler, "errorFallback",
                            IF startsWith(r.url, <<"/", "a", "s", "s", "e", "t", "s", "/">>)
                            THEN rawUrl \o SubSeq(r.url, 8, Len(r.url))
                            ELSE r.url)
          ELSE respond(r, r.handler, 404, "page404")
     ELSE IF status = 403 THEN respond(r, r.handler, 403, "page403")
     ELSE IF o.code = "ECONNABORTED" \/ includes(message, <<"t", "i", "m", "e", "o", "u", "t">>)
     THEN respond(r, r.handler, 504, "errorJson")
     ELSE IF o.code = "ECONNREFUSED" THEN respond(r, r.handler, 502, "errorJson")
     ELSE IF includes(message, <<"c", "i", "r", "c", "u", "l", "a", "r">>) \/ includes(message, <<"c", "y", "c", "l", "i", "c">>)
     THEN respond(r, r.handler, 500, "errorJson")
     ELSE respond(r, r.handler, status, "errorJson")

\* A .then callback that forwards whatever the call resolved with
thenCallbackForward(r, status, data) ==
  IF r.handler \in RouteHandlers /\ r.stage # "errorFallback"
  THEN recordProxyRequest(respond(r, r.handler, status, data), status)
  ELSE respond(r, r.handler, status, data)

\* The .then callback of a handler: the response goes to the client. The site
\* handler answers a 404 with the custom page; the handlers route() picks record
\* the request.
thenCallback(r, status, data) ==
  IF r.handler = "github" /\ status = 404
  THEN recordProxyRequest(respond(r, r.handler, 404, "page404"), 404)
  ELSE IF r.handler \in RouteHandlers /\ r.stage # "errorFallback"
  THEN recordProxyRequest(respond(r, r.handler, status, data), status)
  ELSE respond(r, r.handler, status, data)

\* The .catch callback of a handler for the rejection o of its call in flight
catchCallback(r, o, message) ==
  LET status == IF o.status # 0 THEN o.status ELSE 500
      notFound == respond(r, r.handler, 404, "page404")
      tryAlternate == includes(r.targetUrl, <<"e", "x", "p", "a", "n", "d", "e", "d", "_", "a", "s", "s", "e", "t", "s">>)
                        /\ ~includes(message, <<"r", "e", "t", "r", "y">>)
      alternate == callUpstream(r, r.handler, "alt", nextUrl(r.targetUrl))
      fallback == callUpstream(r, r.handler, "fallback", githubFallbackUrl(r.targetUrl))
  IN IF r.stage = "errorFallback" THEN notFound
     ELSE IF r.handler \in {"api", "raw", "releases", "codeload"}
     THEN recordProxyRequest(handleError(r, o, message), status)
     ELSE IF r.handler = "github"
     THEN IF o.status = 404 THEN recordProxyRequest(notFound, 404)
          ELSE recordProxyRequest(handleError(r, o, message), status)
     ELSE IF r.handler = "assets"
     THEN IF r.stage = "first" /\ o.status = 404
          THEN callUpstream(r, r.handler, "fallback",
                            replaceFirst(r.targetUrl, <<"g", "i", "t", "h", "u", "b", ".", "g", "i", "t", "h", "u", "b", "a", "s", "s", "e", "t", "s", ".", "c", "o", "m">>,
                                         <<"r", "a", "w", ".", "g", "i", "t", "h", "u", "b", "u", "s", "e", "r", "c", "o", "n", "t", "e", "n", "t", ".", "c", "o", "m">>))
          ELSE recordProxyRequest(handleError(r, o, message), 500)
     ELSE IF r.handler \in {"fragment", "cdn"} /\ r.stage = "first"
     THEN IF tryAlternate THEN alternate ELSE fallback
     ELSE IF r.handler \in {"fragment", "cdn"} /\ r.stage = "alt" THEN fallback
     ELSE IF r.handler = "fragment"
     THEN recordProxyRequest(handleError(r, o, message), 404)
     ELSE IF r.stage = "assets" /\ o.status = 404
     THEN callUpstream(r, r.handler, "assetsFallback", rawUrl \o pathOf(r.pending))
     ELSE notFound

\* The request r after a callback that would leave it as q had no response been
\* sent: with res.headersSent the .then callbacks return at once, handleError,
\* sendErrorResponse and serveCustomErrorPage do nothing, and the .catch
\* callbacks still record the request and still issue their own next call. The
\* .catch of the server's favicon call writes without looking.
settled(r, q, isCatch) ==
  IF ~r.headersSent THEN q
  ELSE IF q.st = "upstream" /\ q.stage # "errorFallback" THEN q
  ELSE IF isCatch /\ r.handler = "favicon" THEN q
  ELSE [r EXCEPT !.st = "done", !.pending = << >>,
                 !.records = IF isCatch THEN q.records ELSE @]

\* getOrSetCache up to the response from the cache or the upstream call
getOrSetCache(r, handler, key, url, c, s, t) ==
  LET cached == getResult(c, key, t)
      r1 == [r EXCEPT !.key = key, !.targetUrl = url, !.handler = handler]
  IN [req |-> IF cached # Null
              THEN thenCallback([r1 EXCEPT !.hit = TRUE], cached.status, cached.data)
              ELSE callUpstream(r1, handler, "first", url),
      cache |-> getCache(c, key, t),
      stats |-> getStats(s, c, key, t)]

\* req.on('data', ...), req.on('end', ...): the handler waits for the body
awaitBody(r, handler, c, s) ==
  [req |-> [r EXCEPT !.st = "body", !.handler = handler], cache |-> c, stats |-> s]

\* makeRequest() of handleApiRequest
makeApiRequest(r, c, s, t) ==
  LET targetUrl == apiUrl \o SubSeq(r.url, 5, Len(r.url))
  IN getOrSetCache(r, "api", <<"a", "p", "i", ":">> \o methodString(r.method) \o <<":">> \o targetUrl,
                   targetUrl, c, s, t)

handleApiRequest(r, c, s, t) ==
  IF r.method \in BodyMethods THEN awaitBody(r, "api", c, s)
  ELSE makeApiRequest(r, c, s, t)

handleRawRequest(r, c, s, t) ==
  LET targetUrl == rawUrl \o SubSeq(r.url, 5, Len(r.url))
  IN getOrSetCache(r, "raw", <<"r", "a", "w", ":">> \o targetUrl, targetUrl, c, s, t)

\* handleReleaseRequest and handleCodeloadRequest: a streamed call, no cache
handleLargeFileRequest(r, handler, targetUrl, c, s) ==
  [req |-> callUpstream([r EXCEPT !.targetUrl = targetUrl], handler, "first", targetUrl),
   cache |-> c, stats |-> s]

handleAssetsRequest(r, c, s, t) ==
  LET targetUrl == assetsUrl \o SubSeq(r.url, 8, Len(r.url))
  IN getOrSetCache(r, "assets", <<"a", "s", "s", "e", "t", "s", ":">> \o targetUrl, targetUrl, c, s, t)

\* makeRequest() of handleGithubRequest
makeGithubRequest(r, c, s, t) ==
  LET targetUrl == baseUrl \o r.url
  IN getOrSetCache(r, "github",
                   <<"g", "i", "t", "h", "u", "b", ":">> \o methodString(r.method) \o <<":">> \o targetUrl,
                   targetUrl, c, s, t)

handleGithubRequest(r, c, s, t) ==
  IF r.url = <<"/">> \/ r.url = << >>
  THEN [req |-> recordProxyRequest(respond(r, "github", 200, "homePage"), 200),
        cache |-> c, stats |-> s]
  ELSE IF r.method \in BodyMethods THEN awaitBody(r, "github", c, s)
  ELSE makeGithubRequest(r, c, s, t)

\* The target of a /fragment/ request before new URL() sees it
fragmentTarget(url) ==
  LET fragmentUrl == SubSeq(url, 11, Len(url))
  IN IF startsWith(fragmentUrl, <<"h", "t", "t", "p">>) THEN fragmentUrl
     ELSE IF startsWith(fragmentUrl, <<"c", "d", "n", ".">>) THEN <<"h", "t", "t", "p", "s", ":", "/", "/">> \o fragmentUrl
     ELSE baseUrl \o fragmentUrl

handleIncludeFragmentRequest(r, c, s, t) ==
  LET t0 == fragmentTarget(r.url)
      t1 == toHttpsString(t0)
      t2 == IF endsWith(t1, <<"/">>) THEN SubSeq(t1, 1, Len(t1) - 1) ELSE t1
      targetUrl == withJsonExtension(t2)
  IN IF ~isValidUrl(t0)
     THEN [req |-> recordProxyRequest(
                     handleError([r EXCEPT !.handler = "fragment"],
                                 [kind |-> "error", status |-> 0, data |-> "none",
                                  code |-> "none"],
                                 <<"U", "R", "L", ":", " ">> \o t0), 400),
           cache |-> c, stats |-> s]
     ELSE getOrSetCache(r, "fragment", <<"f", "r", "a", "g", "m", "e", "n", "t", ":">> \o targetUrl, targetUrl, c, s, t)

\* handleAdminRequest as far as its authorization check (authorized: what
\* checkAuth finds for the request) and its catch block
handleAdminRequest(r, throws, authorized) ==
  IF throws THEN recordProxyRequest(respond(r, "admin", 500, "errorJson"), 500)
  ELSE IF ~authorized THEN respond(r, "admin", 401, "errorJson")
  ELSE recordProxyRequest(respond(r, "admin", 200, "adminJson"), 200)

\* An exception thrown in the synchronous part of a handler that route()'s
\* catch block, or the handler's own, catches
caught(r, handler) ==
  recordProxyRequest(
    handleError([r EXCEPT !.handler = handler],
                [kind |-> "error", status |-> 0, data |-> "none", code |-> "none"],
                <<"t", "h", "r", "o", "w", "n">>), 500)

\* An exception thrown in the synchronous part of an async handler outside any
\* try block: the promise the handler returned rejects and nothing handles it
uncaught(r, handler) == [r EXCEPT !.st = "unhandled", !.handler = handler]

\* route(req, res) in blacklist state st: the request, the blacklist state and
\* the cache after its synchronous part. throws: the handler picked throws in
\* its synchronous part, before its upstream call.
route(r, st, c, s, t, throws, authorized) ==
  LET b == shouldBlockRequest(st, r.url)
      same(q) == [req |-> q, bl |-> b.st, cache |-> c, stats |-> s]
      with(h) == [req |-> h.req, bl |-> b.st, cache |-> h.cache, stats |-> h.stats]
  IN IF b.blocked
     THEN same(recordProxyRequest(
                 respond(r, "routeBlocked", blockedStatus(b.st.config), "blockedPage"),
                 403))
     ELSE IF startsWith(r.url, <<"/", "a", "d", "m", "i", "n", "/">>)
     THEN same(handleAdminRequest(r, throws, authorized))
     ELSE IF startsWith(r.url, <<"/", "a", "p", "i", "/">>)
     THEN IF throws THEN same(uncaught(r, "api")) ELSE with(handleApiRequest(r, c, s, t))
     ELSE IF startsWith(r.url, <<"/", "r", "a", "w", "/">>)
     THEN IF throws THEN same(caught(r, "raw")) ELSE with(handleRawRequest(r, c, s, t))
     ELSE IF startsWith(r.url, <<"/", "r", "e", "l", "e", "a", "s", "e", "s", "/">>)
     THEN IF throws THEN same(caught(r, "releases"))
          ELSE with(handleLargeFileRequest(r, "releases",
                      releaseUrl \o SubSeq(r.url, 10, Len(r.url)), c, s))
     ELSE IF startsWith(r.url, <<"/", "a", "s", "s", "e", "t", "s", "/">>)
     THEN IF throws THEN same(caught(r, "assets")) ELSE with(handleAssetsRequest(r, c, s, t))
     ELSE IF startsWith(r.url, <<"/", "c", "o", "d", "e", "l", "o", "a", "d", "/">>)
     THEN IF throws THEN same(caught(r, "codeload"))
          ELSE with(handleLargeFileRequest(r, "codeload",
                      codeloadUrl \o SubSeq(r.url, 10, Len(r.url)), c, s))
     ELSE IF startsWith(r.url, <<"/", "f", "r", "a", "g", "m", "e", "n", "t", "/">>)
     THEN IF throws THEN same(caught(r, "fragment"))
          ELSE with(handleIncludeFragmentRequest(r, c, s, t))
     ELSE IF throws THEN same(caught(r, "github"))
     ELSE with(handleGithubRequest(r, c, s, t))

\* ------------------------------------------------- transformHtmlContent
Quotes == {"\"", "'"}

\* s.replace(/https?:\/\/<domain>/g, r): one pass over s, left to right
RECURSIVE replaceHost(_, _, _)
replaceHost(s, domain, r) ==
  IF s = << >> THEN << >>
  ELSE IF startsWith(s, <<"h", "t", "t", "p", "s", ":", "/", "/">> \o domain)
  THEN r \o replaceHost(SubSeq(s, 9 + Len(domain), Len(s)), domain, r)
  ELSE IF startsWith(s, <<"h", "t", "t", "p", ":", "/", "/">> \o domain)
  THEN r \o replaceHost(SubSeq(s, 8 + Len(domain), Len(s)), domain, r)
  ELSE <<Head(s)>> \o replaceHost(Tail(s), domain, r)

\* processResourceUrl(url) of the first definition of transformHtmlContent.
\* None of its regular expressions but the last is anchored at the start.
processResourceUrl(url) ==
  LET matches(domain) == \/ includes(url, <<"h", "t", "t", "p", "s", ":", "/", "/">> \o domain)
                         \/ includes(url, <<"h", "t", "t", "p", ":", "/", "/">> \o domain)
      subdomain == \E i \in 1..Len(url), j \in 1..Len(url) :
                     /\ \/ startsWith(SubSeq(url, i, Len(url)), <<"h", "t", "t", "p", "s", ":", "/", "/">>) /\ j > i + 8
                        \/ startsWith(SubSeq(url, i, Len(url)), <<"h", "t", "t", "p", ":", "/", "/">>) /\ j > i + 7
                     /\ \A k \in i..(j - 1) : url[k] # "."
                     /\ startsWith(SubSeq(url, j, Len(url)), <<".", "g", "i", "t", "h", "u", "b", "u", "s", "e", "r", "c", "o", "n", "t", "e", "n", "t", ".", "c", "o", "m">>)
  IN IF startsWith(url, <<"/">>) /\ ~startsWith(url, <<"/", "/">>) THEN url
     ELSE IF matches(<<"c", "d", "n", ".">>) THEN <<"/", "f", "r", "a", "g", "m", "e", "n", "t", "/">> \o url
     ELSE IF matches(<<"g", "i", "t", "h", "u", "b", ".", "g", "i", "t", "h", "u", "b", "a", "s", "s", "e", "t", "s", ".", "c", "o", "m">>)
     THEN replaceHost(url, <<"g", "i", "t", "h", "u", "b", ".", "g", "i", "t", "h", "u", "b", "a", "s", "s", "e", "t", "s", ".", "c", "o", "m">>, <<"/", "a", "s", "s", "e", "t", "s">>)
     ELSE IF matches(<<"r", "a", "w", ".", "g", "i", "t", "h", "u", "b", "u", "s", "e", "r", "c", "o", "n", "t", "e", "n", "t", ".", "c", "o", "m">>)
     THEN replaceHost(url, <<"r", "a", "w", ".", "g", "i", "t", "h", "u", "b", "u", "s", "e", "r", "c", "o", "n", "t", "e", "n", "t", ".", "c", "o", "m">>, <<"/", "r", "a", "w">>)
     ELSE IF matches(<<"a", "p", "i", ".", "g", "i", "t", "h", "u", "b", ".", "c", "o", "m">>)
     THEN replaceHost(url, <<"a", "p", "i", ".", "g", "i", "t", "h", "u", "b", ".", "c", "o", "m">>, <<"/", "a", "p", "i">>)
     ELSE IF matches(<<"g", "i", "t", "h", "u", "b", ".", "c", "o", "m">>) THEN replaceHost(url, <<"g", "i", "t", "h", "u", "b", ".", "c", "o", "m">>, << >>)
     ELSE IF subdomain THEN <<"/", "f", "r", "a", "g", "m", "e", "n", "t", "/">> \o url
     ELSE IF startsWith(url, <<"h", "t", "t", "p", "s", ":", "/", "/">>) \/ startsWith(url, <<"h", "t", "t", "p", ":", "/", "/">>)
     THEN <<"/", "f", "r", "a", "g", "m", "e", "n", "t", "/">> \o url
     ELSE url

\* body.replace(new RegExp(`(${attr}=["'])(https?:[^"']+|//[^"']+)(["'])`, 'g'), ...)
RECURSIVE replaceAttr(_, _)
replaceAttr(s, attr) ==
  LET p == Len(attr) + 2
      r == SubSeq(s, p + 1, Len(s))
      closed == \E k \in 1..Len(r) : r[k] \in Quotes
      q == CHOOSE k \in 1..Len(r) : r[k] \in Quotes /\ \A l \in 1..(k - 1) : r[l] \notin Quotes
      url == SubSeq(r, 1, q - 1)
      found == /\ startsWith(s, attr \o <<"=">>)
               /\ Len(s) >= p
               /\ s[p] \in Quotes
               /\ closed
               /\ \/ startsWith(url, <<"h", "t", "t", "p", "s", ":">>) /\ Len(url) > 6
                  \/ startsWith(url, <<"h", "t", "t", "p", ":">>) /\ Len(url) > 5
                  \/ startsWith(url, <<"/", "/">>) /\ Len(url) > 2
  IN IF s = << >> THEN << >>
     ELSE IF found
     THEN SubSeq(s, 1, p)
            \o processResourceUrl(IF startsWith(url, <<"/", "/">>) THEN <<"h", "t", "t", "p", "s", ":">> \o url ELSE url)
            \o <<r[q]>> \o replaceAttr(SubSeq(r, q + 1, Len(r)), attr)
     ELSE <<Head(s)>> \o replaceAttr(Tail(s), attr)

\* resourceAttrs, in the order forEach visits them
resourceAttrs == <<<<"s", "r", "c">>, <<"h", "r", "e", "f">>, <<"d", "a", "t", "a", "-", "u", "r", "l">>, <<"d", "a", "t", "a", "-", "s", "r", "c">>, <<"c", "o", "n", "t", "e", "n", "t">>>>

\* transformHtmlContent(body, req), first definition, for a body without
\* <body>, <head>, <script> and <include-fragment> tags and without url(...):
\* the rewriting of the resource attributes, one attribute after the other
RECURSIVE replaceAttrs(_, _)
replaceAttrs(body, n) ==
  IF n > Len(resourceAttrs) THEN body
  ELSE replaceAttrs(replaceAttr(body, resourceAttrs[n]), n + 1)

transformHtmlContent(body) == replaceAttrs(body, 1)

\* body.replace(/(src|href)="(https?:\/\/cdn\.[^"]+)"/g, ...) of the second
\* definition
RECURSIVE replaceCdnAttr(_)
replaceCdnAttr(s) ==
  LET attr == IF startsWith(s, <<"s", "r", "c", "=">>) THEN <<"s", "r", "c">> ELSE <<"h", "r", "e", "f">>
      p == Len(attr) + 2
      r == SubSeq(s, p + 1, Len(s))
      closed == \E k \in 1..Len(r) : r[k] = "\""
      q == CHOOSE k \in 1..Len(r) : r[k] = "\"" /\ \A l \in 1..(k - 1) : r[l] # "\""
      url == SubSeq(r, 1, q - 1)
      found == /\ startsWith(s, attr \o <<"=">>)
               /\ Len(s) >= p
               /\ s[p] = "\""
               /\ closed
               /\ \/ startsWith(url, <<"h", "t", "t", "p", "s", ":", "/", "/", "c", "d", "n", ".">>) /\ Len(url) > 12
                  \/ startsWith(url, <<"h", "t", "t", "p", ":", "/", "/", "c", "d", "n", ".">>) /\ Len(url) > 11
      proxied == \E part \in {<<"/", "a", "s", "s", "e", "t", "s", "/">>, <<"/", "i", "m", "a", "g", "e", "s", "/">>, <<".", "j", "s">>, <<".", "c", "s", "s">>,
                              <<".", "p", "n", "g">>, <<".", "j", "p", "g">>, <<".", "s", "v", "g">>, <<".", "i", "c", "o">>} :
                   includes(url, part)
  IN IF s = << >> THEN << >>
     ELSE IF found
     THEN (IF proxied THEN attr \o <<"=", "\"">> \o <<"/", "f", "r", "a", "g", "m", "e", "n", "t", "/">> \o url \o <<"\"">>
           ELSE SubSeq(s, 1, p + q))
            \o replaceCdnAttr(SubSeq(r, q + 1, Len(r)))
     ELSE <<Head(s)>> \o replaceCdnAttr(Tail(s))

\* transformHtmlContent(body, req), second definition, for the same bodies: the
\* CDN attributes, then each GitHub domain replaced by the proxy's own address
transformHtmlContent2(body) ==
  LET self == <<"h", "t", "t", "p", ":", "/", "/">> \o host
      b1 == replaceHost(replaceCdnAttr(body), <<"g", "i", "t", "h", "u", "b", ".", "c", "o", "m">>, self)
      b2 == replaceHost(b1, <<"a", "p", "i", ".", "g", "i", "t", "h", "u", "b", ".", "c", "o", "m">>, self \o <<"/", "a", "p", "i">>)
      b3 == replaceHost(b2, <<"r", "a", "w", ".", "g", "i", "t", "h", "u", "b", "u", "s", "e", "r", "c", "o", "n", "t", "e", "n", "t", ".", "c", "o", "m">>, self \o <<"/", "r", "a", "w">>)
      b4 == replaceHost(b3, <<"g", "i", "t", "h", "u", "b", "-", "r", "e", "l", "e", "a", "s", "e", "s", ".", "g", "i", "t", "h", "u", "b", "u", "s", "e", "r", "c", "o", "n", "t", "e", "n", "t", ".", "c", "o", "m">>, self \o <<"/", "r", "e", "l", "e", "a", "s", "e", "s">>)
      b5 == replaceHost(b4, <<"g", "i", "t", "h", "u", "b", ".", "g", "i", "t", "h", "u", "b", "a", "s", "s", "e", "t", "s", ".", "c", "o", "m">>, self \o <<"/", "a", "s", "s", "e", "t", "s">>)
  IN replaceHost(b5, <<"c", "o", "d", "e", "l", "o", "a", "d", ".", "g", "i", "t", "h", "u", "b", ".", "c", "o", "m">>, self \o <<"/", "c", "o", "d", "e", "l", "o", "a", "d">>)

\* An element of a page: <a attr="url">
element(attr, url) == <<"<", "a", " ">> \o attr \o <<"=", "\"">> \o url \o <<"\"", ">">>

\* The URLs and attributes of the pages drawn
HtmlUrls ==
  {scheme \o <<"/", "/">> \o domain \o <<"/">> \o x :
     scheme \in {<<"h", "t", "t", "p", "s", ":">>, <<"h", "t", "t", "p", ":">>, << >>},
     domain \in {<<"g", "i", "t", "h", "u", "b", ".", "c", "o", "m">>, <<"r", "a", "w", ".", "g", "i", "t", "h", "u", "b", "u", "s", "e", "r", "c", "o", "n", "t", "e", "n", "t", ".", "c", "o", "m">>, <<"a", "p", "i", ".", "g", "i", "t", "h", "u", "b", ".", "c", "o", "m">>,
                 <<"g", "i", "t", "h", "u", "b", ".", "g", "i", "t", "h", "u", "b", "a", "s", "s", "e", "t", "s", ".", "c", "o", "m">>, <<"a", "v", "a", "t", "a", "r", "s", ".", "g", "i", "t", "h", "u", "b", "u", "s", "e", "r", "c", "o", "n", "t", "e", "n", "t", ".", "c", "o", "m">>,
                 <<"c", "d", "n", ".", "z">>, <<"e", ".", "o", "r", "g">>},
     x \in {<< >>, <<"p", "/", "q">>, <<"p", "/", "q", "/", "a", ".", "j", "s">>, <<"p", "/", "q", "#", "L", "1">>, <<"p", "/", "h", "t", "t", "p", ":", "/", "/", "c", "d", "n", ".", "z", "/", "a">>,
            <<"l", "o", "g", "i", "n", "?", "r", "e", "t", "u", "r", "n", "_", "t", "o", "=", "h", "t", "t", "p", "s", ":", "/", "/", "g", "i", "t", "h", "u", "b", ".", "c", "o", "m", "/", "p">>}}
HtmlAttrs == {<<"h", "r", "e", "f">>, <<"s", "r", "c">>, <<"d", "a", "t", "a", "-", "u", "r", "l">>, <<"t", "i", "t", "l", "e">>}

\* No page in hand
HtmlIdle == [st |-> "none", version |-> 1, attr |-> << >>, url |-> << >>, body |-> << >>]

\* A page arrives from the upstream
HtmlInit ==
  \E version \in {1, 2}, attr \in HtmlAttrs, url \in HtmlUrls :
    html = [st |-> "fetched", version |-> version, attr |-> attr, url |-> url,
            body |-> element(attr, url)]

\* body = transformHtmlContent(body, req), by the definition the build holds
Transform ==
  /\ html.st = "fetched"
  /\ \E body \in {IF html.version = 1 THEN transformHtmlContent(html.body)
                  ELSE transformHtmlContent2(html.body)} :
       html' = [html EXCEPT !.st = "transformed", !.body = body]
  /\ UNCHANGED <<reqs, requests, cacheVars, blVars, retryVars>>

\* ------------------------------------------- server: state and actions
ProxyInit ==
  /\ reqs = [i \in Slots |-> ReqIdle]
  /\ requests = 0
  /\ html = HtmlIdle

\* The blacklist variables after a request ran the blacklist in state st.
blAfterRequest(st) ==
  /\ blSetState(st)
  /\ blOp' = [op |-> "request", path |-> NoPath, result |-> st.ok, status |-> 0]
  /\ fileChanged' = IF blacklistConfig.enabled THEN FALSE ELSE fileChanged

\* http.createServer's callback for the request in slot i: the static-file
\* branch, blockBlacklistedContent, then route() and the synchronous part of the
\* handler it picks.
RequestFrom(i, method, url, fs, throws, authorized, credentials) ==
  /\ reqs[i].st = "idle"
  /\ requests < MaxRequests
  /\ (method = "OPTIONS" \/ ~isStaticFile(url)) => fs = NoFiles
  /\ authorized => startsWith(url, <<"/", "a", "d", "m", "i", "n", "/">>)
  /\ requests' = requests + 1
  /\ \E r1 \in {LET r0 == [ReqIdle EXCEPT !.method = method, !.url = url,
                                          !.credentials = credentials]
                IN IF method = "OPTIONS" THEN respond(r0, "options", 204, "empty")
                   ELSE IF isStaticFile(url) THEN serverStatic(r0, fs)
                   ELSE r0},
        b \in {blockBlacklistedContent(blState, url)} :
       IF r1.st # "idle"
       THEN /\ reqs' = [reqs EXCEPT ![i] = r1]
            /\ UNCHANGED <<blVars, cache, stats>>
       ELSE IF b.blocked
       THEN /\ reqs' = [reqs EXCEPT ![i] =
                          respond(r1, "blocked", blockedStatus(b.st.config), "blockedPage")]
            /\ blAfterRequest(b.st)
            /\ UNCHANGED <<cache, stats>>
       ELSE \E out \in {route(r1, b.st, cache, stats, now, throws, authorized)} :
              /\ reqs' = [reqs EXCEPT ![i] = out.req]
              /\ blAfterRequest(out.bl)
              /\ cache' = out.cache
              /\ stats' = out.stats
  /\ UNCHANGED <<now, cacheOp, lastSet, retryVars, html>>

\* A request without Authorization and Cookie headers
Request(i, method, url, fs, throws, authorized) ==
  RequestFrom(i, method, url, fs, throws, authorized, NoCredentials)

\* 'data' of the inbound request in slot i: body += chunk.toString()
BodyData(i, chunk) ==
  /\ reqs[i].st = "body"
  /\ Len(reqs[i].inbound) + Len(chunk) <= MaxBody
  /\ reqs' = [reqs EXCEPT ![i].inbound = @ \o chunk, ![i].body = @ \o toString(chunk)]
  /\ UNCHANGED <<requests, cacheVars, blVars, retryVars, html>>

\* 'end' of the inbound request in slot i: options.data = body, makeRequest()
BodyEnd(i) ==
  /\ reqs[i].st = "body"
  /\ \E out \in {IF reqs[i].handler = "api"
                  THEN makeApiRequest(reqs[i], cache, stats, now)
                  ELSE makeGithubRequest(reqs[i], cache, stats, now)} :
       /\ reqs' = [reqs EXCEPT ![i] = settled(reqs[i], out.req, FALSE)]
       /\ cache' = out.cache
       /\ stats' = out.stats
  /\ UNCHANGED <<now, cacheOp, lastSet, requests, blVars, retryVars, html>>

\* The errors the listeners of the server's callback hand to handleError: the
\* 'timeout' of req or res, and an 'error' of req or res
TimeoutError == [o |-> [kind |-> "error", status |-> 504, data |-> "none", code |-> "TIMEOUT"],
                 message |-> <<"U+8D85", "U+65F6">>]
StreamError == [o |-> [kind |-> "error", status |-> 0, data |-> "none", code |-> "ECONNRESET"],
                message |-> <<"a", "b", "o", "r", "t", "e", "d">>]
RequestEvents == {TimeoutError, StreamError}

\* A 'timeout' or 'error' event of the request in slot i while its handler
\* waits: handleError answers unless a response is out, and what the handler
\* waits for goes on.
RequestEvent(i, e) ==
  /\ reqs[i].st \in {"upstream", "body"}
  /\ ~reqs[i].headersSent
  /\ reqs' = [reqs EXCEPT ![i] = [handleError(reqs[i], e.o, e.message)
                                    EXCEPT !.st = reqs[i].st,
                                           !.pending = reqs[i].pending]]
  /\ UNCHANGED <<requests, cacheVars, blVars, retryVars, html>>

\* The call in flight of the request in slot i resolves or rejects, and the
\* handler's callback runs; getOrSetCache stores what its call resolved with.
UpstreamReply(i, o) ==
  /\ reqs[i].st = "upstream"
  /\ \E r \in {[reqs[i] EXCEPT !.outcomes = Append(@, o)]} :
       IF validateStatus(r.handler, r.stage, o)
       THEN /\ reqs' = [reqs EXCEPT ![i] =
                          settled(r, thenCallback(r, o.status, o.data), FALSE)]
            /\ IF r.stage = "first" /\ r.handler \in CachingHandlers
               THEN \E ttl \in {IF r.handler \in {"raw", "assets"} THEN staticMaxAge
                                ELSE maxAge} :
                      /\ cache' = setCache(cache, r.key, responseOf(o), ttl, now)
                      /\ stats' = setStats(stats, cache, r.key, responseOf(o))
               ELSE UNCHANGED <<cache, stats>>
       ELSE /\ reqs' = [reqs EXCEPT ![i] =
                          settled(r, catchCallback(r, o, errorMessage(o, r.pending)),
                                  TRUE)]
            /\ UNCHANGED <<cache, stats>>
  /\ UNCHANGED <<now, cacheOp, lastSet, requests, blVars, retryVars, html>>

\* The response is out, or nothing will answer, and the request is over.
Finish(i) ==
  /\ reqs[i].st \in {"done", "unhandled"}
  /\ reqs' = [reqs EXCEPT ![i] = ReqIdle]
  /\ UNCHANGED <<requests, cacheVars, blVars, retryVars, html>>

\* Time passes.
Elapse(d) ==
  /\ now + d <= MaxClock
  /\ now' = now + d
  /\ UNCHANGED <<cache, stats, cacheOp, lastSet, reqs, requests, blVars, retryVars, html>>

\* The server over the given slots, methods, URLs and exceptions
ServerNext(slots, methods, urls, throwing) ==
  \/ \E i \in slots, m \in methods, u \in urls, fs \in Files, th \in throwing,
        au \in BOOLEAN : Request(i, m, u, fs, th, au)
  \/ \E i \in slots, o \in Outcomes : UpstreamReply(i, o)
  \/ \E i \in slots : Finish(i)
  \/ \E d \in {staticMaxAge, staticMaxAge + maxAge} : Elapse(d)

\* One request at a time, nothing thrown
ProxyNext == ServerNext({1}, RequestMethods, Urls, {FALSE})

\* ------------------------------------------------------------- admin API
JWT_EXPIRE == 24
AUTH_TOKEN == "admin123"
ALLOWED_IPS == {<<"1", "2", "7", ".", "0", ".", "0", ".", "1">>, <<":", ":", "1">>}

ip_local == <<"1", "2", "7", ".", "0", ".", "0", ".", "1">>
ip_near == <<"1", "2", "7", ".", "0", ".", "0", ".", "1", "0">>
ip_other == <<"9", ".", "9", ".", "9", ".", "9">>
\* The socket's address and the x-forwarded-for header of a request
Senders ==
  {[remoteAddress |-> ip_local, forwardedFor |-> << >>],
   [remoteAddress |-> ip_near, forwardedFor |-> << >>],
   [remoteAddress |-> ip_other, forwardedFor |-> << >>],
   [remoteAddress |-> ip_other, forwardedFor |-> ip_local]}

\* crypto.createHash('sha256').update(password).digest('hex')
hashPassword(password) == [sha256 |-> password]

Usernames == {"admin", "bob"}
Passwords == {"admin123", "pw"}
NoUser == [role |-> "none", password |-> hashPassword(""), lastLoginTime |-> -1]
DEFAULT_ADMIN == [role |-> "admin", password |-> hashPassword("admin123"), lastLoginTime |-> -1]
\* users.json as the server finds it: absent (initUsers writes the default
\* administrator), or holding the administrator and an account of role user
DefaultUsers == [u \in Usernames |-> IF u = "admin" THEN DEFAULT_ADMIN ELSE NoUser]
UserFiles ==
  {DefaultUsers,
   [u \in Usernames |-> IF u = "admin" THEN DEFAULT_ADMIN
                        ELSE [role |-> "user", password |-> hashPassword("pw"),
                              lastLoginTime |-> -1]]}

\* userManager.verifyUser: whether the password is the stored one, and the
\* accounts after it (lastLoginTime is saved on success)
verifyUser(us, username, password, t) ==
  IF username \in Usernames /\ us[username] # NoUser
     /\ us[username].password = hashPassword(password)
  THEN [valid |-> TRUE, users |-> [us EXCEPT ![username].lastLoginTime = t]]
  ELSE [valid |-> FALSE, users |-> us]

\* userManager.addUser
addUser(us, data) ==
  IF data.username = "" \/ data.password = "" THEN [success |-> FALSE, users |-> us]
  ELSE IF us[data.username] # NoUser THEN [success |-> FALSE, users |-> us]
  ELSE [success |-> TRUE,
        users |-> [us EXCEPT ![data.username] =
                     [role |-> IF data.role = "" THEN "user" ELSE data.role,
                      password |-> hashPassword(data.password), lastLoginTime |-> -1]]]

\* deleteUser without its guard for the only administrator
deleteUserAny(us, username) ==
  IF username \notin Usernames \/ us[username] = NoUser
  THEN [success |-> FALSE, users |-> us]
  ELSE [success |-> TRUE, users |-> [us EXCEPT ![username] = NoUser]]

\* userManager.deleteUser
deleteUser(us, username) ==
  LET admins == {u \in Usernames : us[u].role = "admin"}
  IN IF username \notin Usernames \/ us[username] = NoUser
     THEN [success |-> FALSE, users |-> us]
     ELSE IF us[username].role = "admin" /\ Cardinality(admins) <= 1
     THEN [success |-> FALSE, users |-> us]
     ELSE [success |-> TRUE, users |-> [us EXCEPT ![username] = NoUser]]

\* userManager.changePassword
changePassword(us, username, newPassword) ==
  IF username \notin Usernames \/ us[username] = NoUser
  THEN [success |-> FALSE, users |-> us]
  ELSE [success |-> TRUE,
        users |-> [us EXCEPT ![username].password = hashPassword(newPassword)]]

\* userManager.changeOwnPassword
changeOwnPassword(us, username, oldPassword, newPassword) ==
  IF username \notin Usernames \/ us[username] = NoUser
  THEN [success |-> FALSE, users |-> us]
  ELSE IF us[username].password # hashPassword(oldPassword)
  THEN [success |-> FALSE, users |-> us]
  ELSE [success |-> TRUE,
        users |-> [us EXCEPT ![username].password = hashPassword(newPassword)]]

\* The Authorization header: absent, a bare token, or a scheme and a token; the
\* token is a JWT (signed with JWT_SECRET or not) or some other text.
NoPayload == [username |-> "", role |-> "", exp |-> 0]
NoAuth == [scheme |-> "none", jwt |-> FALSE, signed |-> FALSE, payload |-> NoPayload,
           text |-> ""]
ForgedPayload == [username |-> "admin", role |-> "admin", exp |-> 99]
AuthHeaders(signedPayloads) ==
  {NoAuth}
  \cup {[scheme |-> "Bearer", jwt |-> TRUE, signed |-> TRUE, payload |-> p, text |-> ""] :
          p \in signedPayloads}
  \cup {[scheme |-> "Bearer", jwt |-> TRUE, signed |-> FALSE, payload |-> ForgedPayload,
         text |-> ""]}
  \cup {[scheme |-> sc, jwt |-> FALSE, signed |-> FALSE, payload |-> NoPayload,
         text |-> AUTH_TOKEN] : sc \in {"Bearer", "Token", "bare"}}
  \cup {[scheme |-> "Bearer", jwt |-> FALSE, signed |-> FALSE, payload |-> NoPayload,
         text |-> "guess"]}

\* isIPAllowed: x-forwarded-for, else the socket's address, contains an allowed IP
isIPAllowed(remoteAddress, forwardedFor) ==
  LET clientIP == IF forwardedFor # << >> THEN forwardedFor ELSE remoteAddress
  IN \E ip \in ALLOWED_IPS : includes(clientIP, ip)

\* jwt.verify(token, JWT_SECRET) at time t
jwtVerify(auth, t) == auth.jwt /\ auth.signed /\ t < auth.payload.exp

\* checkAuth
checkAuth(remoteAddress, forwardedFor, auth, t) ==
  IF ~isIPAllowed(remoteAddress, forwardedFor)
  THEN [authorized |-> FALSE, statusCode |-> 403, user |-> NoPayload]
  ELSE IF auth.scheme = "none"
  THEN [authorized |-> FALSE, statusCode |-> 401, user |-> NoPayload]
  ELSE IF auth.scheme = "Bearer"
  THEN IF jwtVerify(auth, t)
       THEN [authorized |-> TRUE, statusCode |-> 200, user |-> auth.payload]
       ELSE IF ~auth.jwt /\ auth.text = AUTH_TOKEN
       THEN [authorized |-> TRUE, statusCode |-> 200, user |-> NoPayload]
       ELSE [authorized |-> FALSE, statusCode |-> 401, user |-> NoPayload]
  ELSE IF auth.scheme = "Token" /\ ~auth.jwt /\ auth.text = AUTH_TOKEN
  THEN [authorized |-> TRUE, statusCode |-> 200, user |-> NoPayload]
  ELSE [authorized |-> FALSE, statusCode |-> 401, user |-> NoPayload]

p_login == "/admin/api/login"
p_users == "/admin/users"
p_add == "/admin/users/add"
p_delete == "/admin/users/delete"
p_change == "/admin/users/change-password"
p_changeMine == "/admin/users/change-my-password"
p_stats == "/admin/stats"
AdminOnlyPaths == {p_add, p_delete, p_change}
\* The requests sent to the admin API, POST /admin/api/login apart
AdminRoutes ==
  {[method |-> "POST", path |-> p] : p \in {p_add, p_delete, p_change, p_changeMine}}
  \cup {[method |-> "GET", path |-> p] : p \in {p_users, p_stats, p_add, p_login}}

\* The JSON bodies sent to a path: the fields the path reads, others empty
NoData == [username |-> "", password |-> "", oldPassword |-> "", newPassword |-> "",
           role |-> ""]
AdminData(path) ==
  IF path = p_add
  THEN {[NoData EXCEPT !.username = u, !.password = pw, !.role = r] :
          u \in {"bob", ""}, pw \in {"pw"}, r \in {"", "admin"}}
  ELSE IF path = p_delete
  THEN {[NoData EXCEPT !.username = u] : u \in Usernames}
  ELSE IF path = p_change
  THEN {[NoData EXCEPT !.username = u, !.newPassword = "pw"] : u \in Usernames}
  ELSE IF path = p_changeMine
  THEN {[NoData EXCEPT !.oldPassword = o, !.newPassword = "pw"] : o \in Passwords}
       \cup {[NoData EXCEPT !.oldPassword = "pw"]}
  ELSE {NoData}

\* The route of handleAdminRequest that path and method select, past checkAuth:
\* the status and the accounts after it.
adminRoute(us, method, path, data, user, t) ==
  IF path = p_users /\ method = "GET" THEN [status |-> 200, users |-> us]
  ELSE IF path = p_stats THEN [status |-> 200, users |-> us]
  ELSE IF path = p_add /\ method = "POST"
  THEN IF data.username = "" \/ data.password = "" THEN [status |-> 400, users |-> us]
       ELSE [status |-> 200, users |-> addUser(us, data).users]
  ELSE IF path = p_delete /\ method = "POST"
  THEN [status |-> 200, users |-> deleteUser(us, data.username).users]
  ELSE IF path = p_change /\ method = "POST"
  THEN [status |-> 200, users |-> changePassword(us, data.username, data.newPassword).users]
  ELSE IF path = p_changeMine /\ method = "POST"
  THEN IF user.username = "" THEN [status |-> 403, users |-> us]
       ELSE IF data.oldPassword = "" \/ data.newPassword = ""
       THEN [status |-> 400, users |-> us]
       ELSE LET v == verifyUser(us, user.username, data.oldPassword, t)
            IN IF v.valid
               THEN [status |-> 200,
                     users |-> changePassword(v.users, user.username, data.newPassword).users]
               ELSE [status |-> 401, users |-> us]
  ELSE [status |-> 404, users |-> us]

\* recordRequest(path, success)
recordRequest(st, success) ==
  [requestsTotal |-> st.requestsTotal + 1,
   requestsSuccess |-> st.requestsSuccess + (IF success THEN 1 ELSE 0),
   requestsError |-> st.requestsError + (IF success THEN 0 ELSE 1)]

storedRole(us, username) == IF username \in Usernames THEN us[username].role ELSE "none"

NoAdminOp ==
  [op |-> "none", method |-> "GET", path |-> "", remoteAddress |-> << >>,
   forwardedFor |-> << >>, credentials |-> FALSE, status |-> 0, executed |-> FALSE,
   user |-> "", role |-> "none", target |-> "", failures |-> 0, verified |-> FALSE]

AdminStart(f) ==
  /\ users = f
  /\ issued = {}
  /\ logs = [access |-> 0, error |-> 0]
  /\ adminStats = [requestsTotal |-> 0, requestsSuccess |-> 0, requestsError |-> 0]
  /\ loginFailures = [u \in Usernames |-> 0]
  /\ adminOp = NoAdminOp

AdminInit == \E f \in UserFiles : AdminStart(f)

\* handleAdminRequest for a request other than POST /admin/api/login; ok says
\* whether the body, where the route reads one, parses as JSON.
AdminRequest(remoteAddress, forwardedFor, auth, method, path, data, ok) ==
  /\ logs.access < MaxAccessLog
  /\ ~(path = p_login /\ method = "POST")
  /\ (method = "GET" \/ path \notin AdminOnlyPaths \cup {p_changeMine}) => ok
  /\ \E a \in {checkAuth(remoteAddress, forwardedFor, auth, now)},
        out \in {adminRoute(users, method, path, data,
                            checkAuth(remoteAddress, forwardedFor, auth, now).user, now)} :
       /\ IF ~a.authorized
          THEN /\ logs' = [logs EXCEPT !.access = @ + 1]
               /\ UNCHANGED <<users, adminStats>>
          ELSE IF ~ok
          THEN /\ logs' = [access |-> logs.access + 1, error |-> logs.error + 1]
               /\ adminStats' = recordRequest(adminStats, FALSE)
               /\ UNCHANGED users
          ELSE /\ logs' = [logs EXCEPT !.access = @ + 1]
               /\ adminStats' = recordRequest(adminStats, TRUE)
               /\ users' = out.users
       /\ adminOp' =
            [op |-> "request", method |-> method, path |-> path,
             remoteAddress |-> remoteAddress, forwardedFor |-> forwardedFor,
             credentials |-> (jwtVerify(auth, now)
                              \/ (~auth.jwt /\ auth.scheme \in {"Bearer", "Token"}
                                  /\ auth.text = AUTH_TOKEN)),
             status |-> IF ~a.authorized THEN a.statusCode
                        ELSE IF ~ok THEN 500 ELSE out.status,
             executed |-> a.authorized,
             user |-> a.user.username, role |-> storedRole(users, a.user.username),
             target |-> data.username, failures |-> 0, verified |-> FALSE]
  /\ UNCHANGED <<issued, loginFailures>>

\* handleAdminRequest for POST /admin/api/login, and handleLoginRequest
AdminLogin(remoteAddress, forwardedFor, username, password, ok) ==
  /\ logs.access < MaxAccessLog
  /\ \E v \in {verifyUser(users, username, password, now)} :
       /\ IF ~ok
          THEN /\ logs' = [access |-> logs.access + 1, error |-> logs.error + 1]
               /\ UNCHANGED <<users, issued, loginFailures>>
          ELSE IF username = "" \/ password = ""
          THEN /\ logs' = [logs EXCEPT !.access = @ + 1]
               /\ UNCHANGED <<users, issued, loginFailures>>
          ELSE IF v.valid
          THEN /\ logs' = [logs EXCEPT !.access = @ + 2]
               /\ users' = v.users
               /\ issued' = issued \cup {[username |-> username, role |-> "admin",
                                          exp |-> now + JWT_EXPIRE]}
               /\ loginFailures' = [loginFailures EXCEPT ![username] = 0]
          ELSE /\ logs' = [access |-> logs.access + 1, error |-> logs.error + 1]
               /\ loginFailures' = IF username \in Usernames
                                   THEN [loginFailures EXCEPT ![username] = @ + 1]
                                   ELSE loginFailures
               /\ UNCHANGED <<users, issued>>
       /\ adminOp' =
            [op |-> "login", method |-> "POST", path |-> p_login,
             remoteAddress |-> remoteAddress, forwardedFor |-> forwardedFor,
             credentials |-> FALSE,
             status |-> IF ~ok THEN 500 ELSE IF username = "" \/ password = "" THEN 400
                        ELSE IF v.valid THEN 200 ELSE 401,
             executed |-> TRUE,
             user |-> username, role |-> storedRole(users, username),
             target |-> "",
             failures |-> IF username \in Usernames THEN loginFailures[username] ELSE 0,
             verified |-> ok /\ username # "" /\ password # ""]
  /\ UNCHANGED adminStats

\* A call of userManager: the store after it, and what it returned
UserManagerCall(op, username, out) ==
  /\ users' = out.users
  /\ adminOp' = [NoAdminOp EXCEPT !.op = op, !.target = username,
                                  !.executed = out.success]
  /\ UNCHANGED <<issued, logs, adminStats, loginFailures>>

UserManagerNext ==
  \/ \E u \in Usernames, pw \in Passwords, r \in {"", "user", "admin"} :
       UserManagerCall("addUser", u,
                       addUser(users, [NoData EXCEPT !.username = u, !.password = pw,
                                                     !.role = r]))
  \/ \E u \in Usernames : UserManagerCall("deleteUser", u, deleteUser(users, u))
  \/ \E u \in Usernames, pw \in Passwords :
       UserManagerCall("changePassword", u, changePassword(users, u, pw))
  \/ \E u \in Usernames, old \in Passwords, pw \in Passwords :
       UserManagerCall("changeOwnPassword", u, changeOwnPassword(users, u, old, pw))

AdminNext ==
  \/ \E c \in Senders, au \in AuthHeaders(issued), r \in AdminRoutes :
       \E d \in AdminData(r.path), ok \in IF r.path = p_delete THEN BOOLEAN ELSE {TRUE} :
         AdminRequest(c.remoteAddress, c.forwardedFor, au, r.method, r.path, d, ok)
  \/ \E c \in {c \in Senders : c.forwardedFor = << >>}, u \in Usernames \cup {""},
        pw \in Passwords, ok \in BOOLEAN :
       (ok \/ u = "") /\ AdminLogin(c.remoteAddress, c.forwardedFor, u, pw, ok)

\* ---------------------------------------------------------- specifications
\* The admin API left alone, on the default accounts.
AdminIdle == AdminStart(DefaultUsers)

Init == CacheInit /\ BlInit /\ RetryInit /\ ProxyInit /\ AdminIdle

\* The cache alone, beside a blacklist that found no file.
InitCache == CacheInit /\ BlStart(MissingFile) /\ RetryInit /\ ProxyInit /\ AdminIdle
SpecCache ==
  InitCache /\ [][CacheNext /\ UNCHANGED <<blVars, retryVars, proxyVars, adminVars>>]_vars

\* The blacklist alone.
SpecBlacklist ==
  Init /\ [][BlNext /\ UNCHANGED <<cacheVars, retryVars, proxyVars, adminVars>>]_vars

\* One call of an axios client.
SpecRetry == InitCache /\ [][RetryNext /\ UNCHANGED adminVars]_vars

\* The server handling requests, one after the other, over the cache and a
\* blacklist file that stays as the server found it.
SpecProxy == Init /\ [][ProxyNext /\ UNCHANGED adminVars]_vars

\* The same server, with requests for each of route()'s handlers, by GET and
\* HEAD, and handlers that may throw.
RouteNext == ServerNext({1}, RouteMethods, RouteUrls, BOOLEAN)
InitRoute ==
  /\ CacheInit
  /\ BlStart([state |-> "ok", content |-> PolicyA, mtime |-> 1])
  /\ RetryInit
  /\ ProxyInit
  /\ AdminIdle
SpecRoute == InitRoute /\ [][RouteNext /\ UNCHANGED adminVars]_vars

\* The server with two requests in hand at once: callbacks of one request run
\* between those of the other.
ConcurrentUrls == {u_raw, u_api}
ConcurrentNext == ServerNext(Slots, {"GET", "HEAD"}, ConcurrentUrls, {FALSE})
SpecConcurrent == InitCache /\ [][ConcurrentNext /\ UNCHANGED adminVars]_vars

\* The rewriting of one HTML page.
InitTransform ==
  /\ CacheInit
  /\ BlStart(MissingFile)
  /\ RetryInit
  /\ reqs = [i \in Slots |-> ReqIdle]
  /\ requests = 0
  /\ HtmlInit
  /\ AdminIdle
SpecTransform == InitTransform /\ [][Transform /\ UNCHANGED adminVars]_vars

\* The blacklist file edited while the server runs: the 30-second timer
\* (setInterval(checkConfigUpdated, configCheckInterval)) fires again and again,
\* and requests for repository pages arrive in between.
ReloadUrls == {u_repo, u_site}
ReloadNext ==
  \/ /\ \/ \E p \in Policies : EditFile(p, "ok")
        \/ EditFile(defaultConfig, "corrupt")
        \/ CheckConfigUpdated
     /\ UNCHANGED <<cacheVars, retryVars, proxyVars, adminVars>>
  \/ ServerNext({1}, {"GET"}, ReloadUrls, {FALSE}) /\ UNCHANGED adminVars
SpecReload ==
  /\ Init
  /\ [][ReloadNext]_vars
  /\ WF_vars(CheckConfigUpdated /\ UNCHANGED <<cacheVars, retryVars, proxyVars, adminVars>>)

\* Requests that name the listed repository O/r by every route, and with a
\* query string, under the policy that lists it.
GuardUrls == {u_repo, u_repoQuery, u_rawListed, u_rawQuery, u_codeloadListed,
              u_releaseListed, u_fragListed}
GuardNext == ServerNext({1}, {"GET"}, GuardUrls, {FALSE})
SpecGuard == InitRoute /\ [][GuardNext /\ UNCHANGED adminVars]_vars

\* Downloads streamed to two clients at once, while other callers offer
\* values, streams among them, to CacheManager.set.
StreamUrls == {u_release, u_codeload}
StreamedHandlers == RouteHandlers \ CachingHandlers
StreamNext ==
  \/ /\ \E k \in CacheKeys, d \in CacheData : CacheManager_set(k, d, maxAge)
     /\ UNCHANGED <<blVars, retryVars, proxyVars, adminVars>>
  \/ ServerNext(Slots, {"GET"}, StreamUrls, {FALSE}) /\ UNCHANGED adminVars
SpecStream == InitCache /\ [][StreamNext]_vars

\* Requests with a body on the API and site routes, one at a time.
Chunks == UNION {[1..n -> Bytes] : n \in 1..MaxBody}
BodyUrls == {u_api, u_site}
BodyNext ==
  \/ ServerNext({1}, {"GET", "POST"}, BodyUrls, {FALSE})
  \/ \E chunk \in Chunks : BodyData(1, chunk)
  \/ BodyEnd(1)
SpecBody == InitCache /\ [][BodyNext /\ UNCHANGED adminVars]_vars

\* Clients with and without credentials, and an upstream that answers each call
\* with what the account named by the call's Authorization and Cookie headers
\* may see.
accountOutcome(credentials) ==
  [kind |-> "ok", status |-> 200, data |-> credentials, code |-> "none"]
UpstreamReplyTo(i) ==
  /\ reqs[i].st = "upstream"
  /\ UpstreamReply(i, accountOutcome(reqs[i].calls[Len(reqs[i].calls)].credentials))
ClientsNext ==
  \/ \E u \in BodyUrls, credentials \in Credentials :
       RequestFrom(1, "GET", u, NoFiles, FALSE, FALSE, credentials)
  \/ UpstreamReplyTo(1)
  \/ Finish(1)
  \/ Elapse(staticMaxAge)
SpecClients == InitCache /\ [][ClientsNext /\ UNCHANGED adminVars]_vars

\* Requests whose handler waits for the upstream while the request's or the
\* response's 'timeout' and 'error' events fire.
EventUrls == {u_favicon, u_site, u_asset}
EventsNext ==
  \/ ServerNext({1}, {"GET"}, EventUrls, {FALSE})
  \/ \E e \in RequestEvents : RequestEvent(1, e)
SpecEvents == InitCache /\ [][EventsNext /\ UNCHANGED adminVars]_vars

\* userManager alone, from the store that initUsers writes.
SpecUsers ==
  InitCache /\ [][UserManagerNext
                  /\ UNCHANGED <<cacheVars, blVars, retryVars, proxyVars>>]_vars

\* The admin API: logins and requests from allowed and other addresses, with
\* and without credentials, while tokens age.
InitAdmin == CacheInit /\ BlStart(MissingFile) /\ RetryInit /\ ProxyInit /\ AdminInit
AdminApiNext ==
  \/ AdminNext /\ UNCHANGED <<cacheVars, blVars, retryVars, proxyVars>>
  \/ (\E d \in {JWT_EXPIRE} : Elapse(d)) /\ UNCHANGED adminVars
SpecAdmin == InitAdmin /\ [][AdminApiNext]_vars

\* ------------------------------------------------------------------ claims

\* C1 (as stated): after set(k, v, ttl) of a cacheable v, with no clear() and no
\* later set(k) in between, a get(k) issued while no more than ttl has elapsed
\* returns v, and a get(k) issued after ttl has elapsed returns a miss.
C1_GetWithinTtlAsStated ==
  (cacheOp.op = "get" /\ lastSet[cacheOp.key].valid) =>
    LET s == lastSet[cacheOp.key]
    IN IF cacheOp.at - s.at <= s.ttl
       THEN cacheOp.result = s.data
       ELSE cacheOp.result = Null

\* C1 (amended): the same with the time to live that set() stores: ttl when it
\* is positive, config.cache.maxAge when it is 0.
C1_GetWithinEffectiveTtl ==
  (cacheOp.op = "get" /\ lastSet[cacheOp.key].valid) =>
    LET s == lastSet[cacheOp.key]
    IN IF cacheOp.at - s.at <= effectiveMaxAge(s.ttl)
       THEN cacheOp.result = s.data
       ELSE cacheOp.result = Null

\* A get that misses because the entry set earlier, with a positive ttl, expired.
C1_Witness ==
  /\ cacheOp.op = "get"
  /\ lastSet[cacheOp.key].valid
  /\ lastSet[cacheOp.key].ttl > 0
  /\ cacheOp.at - lastSet[cacheOp.key].at > lastSet[cacheOp.key].ttl
  /\ cacheOp.result = Null

\* C3 (as stated): isRepoBlacklisted returns true for a path that equals, ignoring
\* case, an entry of repositories and no entry of whitelistRepositories, and false
\* for a path that equals, ignoring case, an entry of whitelistRepositories.
C3_VerdictAsStated ==
  blOp.op = "isRepoBlacklisted" =>
    /\ (inRepositories(blacklistConfig, blOp.path)
          /\ ~inWhitelist(blacklistConfig, blOp.path)) => blOp.result = TRUE
    /\ inWhitelist(blacklistConfig, blOp.path) => blOp.result = FALSE

\* C3 (amended): under an enabled policy, isRepoBlacklisted returns true for a
\* non-empty path in repositories (ignoring case) and not in whitelistRepositories;
\* under any policy it returns false for a path in whitelistRepositories, whatever
\* repositories and keywords hold.
C3_Verdict ==
  blOp.op = "isRepoBlacklisted" =>
    /\ (blacklistConfig.enabled /\ blOp.path # << >>
          /\ inRepositories(blacklistConfig, blOp.path)
          /\ ~inWhitelist(blacklistConfig, blOp.path)) => blOp.result = TRUE
    /\ inWhitelist(blacklistConfig, blOp.path) => blOp.result = FALSE

\* "O/R" is found blocked by the entry "O/r" after "w/l", an entry of both lists
\* under that policy, was found allowed.
C3_Witness ==
  /\ blOp.op = "isRepoBlacklisted"
  /\ blOp.path = s_OR
  /\ blacklistConfig = PolicyA
  /\ blOp.result = TRUE
  /\ s_wl \in DOMAIN checkedPathsCache
  /\ checkedPathsCache[s_wl] = FALSE

\* C9 (as stated): a reload (periodic check or forced) made while the file is
\* unchanged since the previous one leaves the policy and the verdict cache as
\* they were.
C9_ReloadUnchangedAsStated ==
  [][(blOp'.op \in {"checkConfigUpdated", "forceReloadConfig"} /\ ~fileChanged)
       => (blacklistConfig' = blacklistConfig
           /\ checkedPathsCache' = checkedPathsCache)]_vars

\* C9 (amended): a reload made while the file is unchanged since the previous
\* one leaves the policy as it was; checkConfigUpdated also leaves the verdict
\* cache as it was (forceReloadConfig reloads and clears it whatever the mtime).
C9_ReloadUnchanged ==
  [][(blOp'.op \in {"checkConfigUpdated", "forceReloadConfig"} /\ ~fileChanged)
       => (blacklistConfig' = blacklistConfig
           /\ (blOp'.op = "checkConfigUpdated"
                 => checkedPathsCache' = checkedPathsCache))]_vars

\* A check found the file unchanged and left the verdicts memoized under the
\* enabled policy in place.
C9_Witness ==
  /\ blOp.op = "checkConfigUpdated"
  /\ ~fileChanged
  /\ blacklistConfig.enabled
  /\ file.mtime = configLastModified
  /\ checkedPathsCache # << >>

\* C10: once an enabled policy was loaded, the policy in force is the one of the
\* last successful load, also after a reload that failed.
C10_LastGoodInForce ==
  (lastGood.valid /\ lastGood.policy.enabled) => blacklistConfig = lastGood.policy

\* C4: a call of a client whose retry is 3 makes at most 4 attempts, also when
\* every attempt fails with ECONNRESET, ECONNABORTED or ETIMEDOUT.
C4_AtMostFourAttempts ==
  call.client.retry = 3 => call.attempts <= 4

\* C5: the delay before the n-th retry of a call is retryDelay * 2^(n-1).
C5_ExponentialDelays ==
  \A n \in 1..Len(call.delays) : call.delays[n] = retryDelay * 2 ^ (n - 1)

\* C6: a POST, PUT or PATCH is never re-issued after a failure, and no call is
\* re-issued after a failure with a 4xx status.
C6_NoReissue ==
  /\ call.method \in {"POST", "PUT", "PATCH"} => call.attempts <= 1
  /\ \A e \in call.reissuedAfter : ~(e.status >= 400 /\ e.status < 500)

\* C2: a GET of a path under /o/r, with o/r in repositories (and not in
\* whitelistRepositories) of the enabled policy, causes no upstream call and is
\* answered 451.
C2_ListedRepoAnswered451 ==
  LET parts == splitSlash(req.url)
      listed == /\ Len(parts) >= 2
                /\ inRepositories(blacklistConfig, parts[1] \o <<"/">> \o parts[2])
                /\ ~inWhitelist(blacklistConfig, parts[1] \o <<"/">> \o parts[2])
  IN (req.st \in {"upstream", "done"} /\ req.method = "GET"
        /\ blacklistConfig.enabled /\ listed)
       => (req.calls = << >> /\ (req.st = "done" => req.status = 451))

\* C7 (its first part): a GET /raw/... of a repository the policy does not block,
\* not answered from the cache, is answered with what the upstream answered: an
\* upstream call was made, and its 200 and body are the response's.
C7_RawAnswersUpstream ==
  LET repoPath == extractRepoFromRawUrl(req.url)
      blocked == blacklistConfig.enabled /\ repoPath # NoPath
                   /\ evaluate(blacklistConfig, repoPath)
  IN (req.st = "done" /\ req.method = "GET" /\ startsWith(req.url, <<"/", "r", "a", "w", "/">>)
        /\ ~blocked /\ ~req.hit)
       => /\ Len(req.outcomes) >= 1
          /\ req.outcomes[1].kind = "ok"
               => (req.status = req.outcomes[1].status /\ req.data = req.outcomes[1].data)

\* C8 (as stated): for a /fragment/ request of an expanded_assets URL whose first
\* upstream call failed, the second call is the only alternate-extension call and
\* asks for the extension listed after the current one in .json, .js, .ts, .css,
\* .txt, .md; when it succeeds, its status and body are the response's.
C8_AlternateAsStated ==
  LET u == req.targetUrl
      d == extensionDot(u)
      ext == SubSeq(u, d, Len(u))
      listedBeforeLast == d # 0 /\ \E i \in 1..5 : extensions[i] = ext
      following == extensions[(CHOOSE i \in 1..5 : extensions[i] = ext) + 1]
  IN (req.handler = "fragment" /\ includes(u, <<"e", "x", "p", "a", "n", "d", "e", "d", "_", "a", "s", "s", "e", "t", "s">>)
        /\ Len(req.outcomes) >= 1 /\ req.outcomes[1].kind = "error")
       => /\ req.calls[2].stage = "alt"
          /\ listedBeforeLast
          /\ req.calls[2].url = SubSeq(u, 1, d - 1) \o following
          /\ \A i \in 1..Len(req.calls) : req.calls[i].stage = "alt" => i = 2
          /\ (Len(req.outcomes) >= 2 /\ req.outcomes[2].kind = "ok")
               => (req.st = "done" /\ req.status = req.outcomes[2].status
                   /\ req.data = req.outcomes[2].data)

\* C8 (amended): for a /fragment/ request of an expanded_assets URL whose first
\* upstream call failed with an error whose message does not contain "retry", the
\* second call is the only alternate-extension call and asks for the extension
\* after the current one in the list taken cyclically (.json after .md), and for
\* .json when the current extension is not in the list; when it succeeds, its
\* status and body are the response's. When the message contains "retry", no
\* alternate-extension call is made.
C8_Alternate ==
  LET u == req.targetUrl
      d == extensionDot(u)
      ext == SubSeq(u, d, Len(u))
      listed == d # 0 /\ \E i \in 1..6 : extensions[i] = ext
      expected == IF ~listed THEN <<".", "j", "s", "o", "n">>
                  ELSE IF ext = <<".", "m", "d">> THEN <<".", "j", "s", "o", "n">>
                  ELSE extensions[(CHOOSE i \in 1..5 : extensions[i] = ext) + 1]
      base == IF d = 0 THEN u ELSE SubSeq(u, 1, d - 1)
      saysRetry == includes(errorMessage(req.outcomes[1], req.calls[1].url), <<"r", "e", "t", "r", "y">>)
  IN (req.handler = "fragment" /\ includes(u, <<"e", "x", "p", "a", "n", "d", "e", "d", "_", "a", "s", "s", "e", "t", "s">>)
        /\ Len(req.outcomes) >= 1 /\ req.outcomes[1].kind = "error")
       => IF saysRetry
          THEN \A i \in 1..Len(req.calls) : req.calls[i].stage # "alt"
          ELSE /\ req.calls[2].stage = "alt"
               /\ req.calls[2].url = base \o expected
               /\ \A i \in 1..Len(req.calls) : req.calls[i].stage = "alt" => i = 2
               /\ (Len(req.outcomes) >= 2 /\ req.outcomes[2].kind = "ok")
                    => (req.st = "done" /\ req.status = req.outcomes[2].status
                        /\ req.data = req.outcomes[2].data)

\* The upstream answered 404 for ....json and 200 with B2 for ....js, and the
\* client got 200 with B2.
C8_Witness ==
  /\ req.st = "done"
  /\ req.handler = "fragment"
  /\ req.url = u_frag
  /\ Len(req.outcomes) = 2
  /\ req.outcomes[1].status = 404
  /\ req.outcomes[2].kind = "ok"
  /\ req.calls[1].url = <<"h", "t", "t", "p", "s", ":", "/", "/", "c", "d", "n", ".", "z", "/", "p", "/", "q", "/", "e", "x", "p", "a", "n", "d", "e", "d", "_", "a", "s", "s", "e", "t", "s", "/", "a", ".", "j", "s", "o", "n">>
  /\ req.calls[2].url = <<"h", "t", "t", "p", "s", ":", "/", "/", "c", "d", "n", ".", "z", "/", "p", "/", "q", "/", "e", "x", "p", "a", "n", "d", "e", "d", "_", "a", "s", "s", "e", "t", "s", "/", "a", ".", "j", "s">>
  /\ req.status = 200
  /\ req.data = "B2"

\* C11: every request that is not blocked is handled by the handler of the first
\* prefix its path starts with, in the order /admin/, /api/, /raw/, /releases/,
\* /assets/, /codeload/, /fragment/, and by the site handler otherwise, whatever
\* the extension at the end of the URL.
C11_PrefixReachesHandler ==
  LET u == req.url
      expected == IF startsWith(u, <<"/", "a", "d", "m", "i", "n", "/">>) THEN "admin"
                  ELSE IF startsWith(u, <<"/", "a", "p", "i", "/">>) THEN "api"
                  ELSE IF startsWith(u, <<"/", "r", "a", "w", "/">>) THEN "raw"
                  ELSE IF startsWith(u, <<"/", "r", "e", "l", "e", "a", "s", "e", "s", "/">>) THEN "releases"
                  ELSE IF startsWith(u, <<"/", "a", "s", "s", "e", "t", "s", "/">>) THEN "assets"
                  ELSE IF startsWith(u, <<"/", "c", "o", "d", "e", "l", "o", "a", "d", "/">>) THEN "codeload"
                  ELSE IF startsWith(u, <<"/", "f", "r", "a", "g", "m", "e", "n", "t", "/">>) THEN "fragment"
                  ELSE "github"
  IN (req.st \in {"upstream", "done", "unhandled"} /\ req.method # "OPTIONS"
        /\ req.handler \notin {"blocked", "routeBlocked"})
       => req.handler = expected

\* C12: an exception raised while route() or a handler builds and dispatches the
\* request ends in an error response: no request is left without a response by
\* an exception that nothing catches.
C12_NoExceptionEscapes ==
  \A i \in Slots : reqs[i].st # "unhandled"

\* C13: when every stage of a /fragment/ request fails (the first attempt, the
\* alternate extension, the raw-content reconstruction), each stage made one
\* upstream call and no other call was made, and the client has the error
\* response: not a redirect back to the /fragment/ URL it asked for.
C13_FragmentAllStagesFail ==
  (/\ req.st = "done"
   /\ req.handler = "fragment"
   /\ Len(req.calls) >= 2
   /\ \A k \in 1..Len(req.outcomes) : req.outcomes[k].kind = "error")
  => /\ \A k \in 1..Len(req.calls) : req.calls[k].stage \in {"first", "alt", "fallback"}
     /\ \A k, l \in 1..Len(req.calls) : req.calls[k].stage = req.calls[l].stage => k = l
     /\ req.status >= 400
     /\ req.location # req.url

\* C14: when the upstream answers the call of an /assets/ request with 404, a
\* second call for the same path goes to the raw-content host before the
\* client is answered.
C14_AssetsAlternateHost ==
  (/\ req.st = "done"
   /\ startsWith(req.url, <<"/", "a", "s", "s", "e", "t", "s", "/">>)
   /\ Len(req.outcomes) >= 1
   /\ req.outcomes[1].status = 404)
  => /\ Len(req.calls) >= 2
     /\ req.calls[2].url = rawUrl \o pathOf(req.calls[1].url)

\* C15: on the API and raw routes a 4xx answer of the upstream reaches the
\* client with the upstream's status and body.
C15_ClientErrorForwarded ==
  (/\ req.st = "done"
   /\ req.handler \in {"api", "raw"}
   /\ Len(req.outcomes) = 1
   /\ req.outcomes[1].status \in 400..499)
  => /\ req.status = req.outcomes[1].status
     /\ req.data = req.outcomes[1].data

\* C16: on the default site route a response with status 404, fresh from the
\* upstream or read from the cache, reaches the client as the custom not-found
\* page with status 404, never as the upstream's own 404 body.
C16_SiteNotFoundPage ==
  (/\ req.st = "done"
   /\ req.handler = "github"
   /\ \/ Len(req.outcomes) = 1 /\ req.outcomes[1].status = 404
      \/ req.hit /\ req.key \in DOMAIN cache /\ cache[req.key].data.status = 404)
  => /\ req.status = 404
     /\ req.data = "page404"

\* C16 (witness): a site request answered with the not-found page from a cached
\* upstream 404
C16_CachedNotFoundServed ==
  /\ req.st = "done"
  /\ req.handler = "github"
  /\ req.hit
  /\ req.key \in DOMAIN cache
  /\ cache[req.key].data = [kind |-> "object", id |-> 0, bytes |-> 2, status |-> 404, data |-> "U404"]
  /\ req.status = 404
  /\ req.data = "page404"

\* C17: for every request passed to route(), one metrics datapoint, and only
\* one, has been recorded by the time the request is answered, whether it
\* succeeded, failed, was blocked or took a fallback path.
C17_OneDatapoint ==
  (/\ req.st = "done"
   /\ req.handler \in RouteHandlers \cup {"admin", "routeBlocked"})
  => Len(req.records) = 1

\* C18: two requests use the same cache entry only when they have the same
\* route kind, the same HTTP method and the same upstream URL.
C18_SharedEntrySameRequest ==
  \A i, j \in Slots :
    (/\ reqs[i].st \in {"upstream", "done"}
     /\ reqs[j].st \in {"upstream", "done"}
     /\ reqs[i].key # << >>
     /\ reqs[i].key = reqs[j].key)
    => /\ reqs[i].handler = reqs[j].handler
       /\ reqs[i].method = reqs[j].method
       /\ reqs[i].targetUrl = reqs[j].targetUrl

\* C19: however two inbound requests that map to the same cache key interleave,
\* there are never two upstream calls for that key in flight at once.
C19_OneCallInFlightPerKey ==
  \A i, j \in Slots :
    (/\ reqs[i].st = "upstream" /\ reqs[i].stage = "first"
     /\ reqs[j].st = "upstream" /\ reqs[j].stage = "first"
     /\ reqs[i].key # << >>
     /\ reqs[i].key = reqs[j].key)
    => i = j

\* C20: for every path x, transformHtmlContent turns href="https://github.com/x"
\* into href="/x" and href="https://raw.githubusercontent.com/x" into
\* href="/raw/x".
C20_HrefRewritten ==
  (html.st = "transformed" /\ html.attr = <<"h", "r", "e", "f">>)
  => /\ startsWith(html.url, <<"h", "t", "t", "p", "s", ":", "/", "/", "g", "i", "t", "h", "u", "b", ".", "c", "o", "m", "/">>)
          => html.body = element(html.attr, SubSeq(html.url, 19, Len(html.url)))
     /\ startsWith(html.url, <<"h", "t", "t", "p", "s", ":", "/", "/", "r", "a", "w", ".", "g", "i", "t", "h", "u", "b", "u", "s", "e", "r", "c", "o", "n", "t", "e", "n", "t", ".", "c", "o", "m", "/">>)
          => html.body = element(html.attr, <<"/", "r", "a", "w">> \o SubSeq(html.url, 34, Len(html.url)))

\* C21: every upstream call made for a request, the alternate-extension and
\* alternate-host calls included, carries the host of the URL it calls in its
\* Host header: not the proxy's host, not the host of an upstream tried before.
C21_HostOfCalledUrl ==
  \A k \in 1..Len(req.calls) :
    /\ req.calls[k].host = hostOf(req.calls[k].url)
    /\ req.calls[k].host # host

\* C21 (witness): a /fragment/ request whose third call went to the raw-content
\* host after two calls to the CDN host, each under its own Host header
C21_FallbackCallsOtherHost ==
  /\ req.handler = "fragment"
  /\ Len(req.calls) = 3
  /\ req.calls[1].host = <<"c", "d", "n", ".", "g", "h", ".", "s", "q", "u", "a", "r", "e", "f", "i", "e", "l", "d", ".", "l", "t", "d">>
  /\ req.calls[2].host = <<"c", "d", "n", ".", "g", "h", ".", "s", "q", "u", "a", "r", "e", "f", "i", "e", "l", "d", ".", "l", "t", "d">>
  /\ req.calls[3].host = <<"r", "a", "w", ".", "g", "i", "t", "h", "u", "b", "u", "s", "e", "r", "c", "o", "n", "t", "e", "n", "t", ".", "c", "o", "m">>
  /\ req.calls[3].url = rawUrl \o pathOf(req.calls[3].url)

\* C22: every rejection of the upstream client is the normalized error value,
\* with an excerpt of the upstream body of at most 1000 characters: the error
\* object the HTTP library handed the interceptor never reaches the caller.
C22_RejectionNormalized ==
  call.st = "rejected"
    => /\ call.rejection.kind = "enhanced"
       /\ call.rejection.data <= 1000

\* C23: isRepoBlacklisted(p) returns what the policy in memory yields for p
\* without the verdict cache, and under an enabled policy every memoized verdict
\* is the verdict of that policy: no verdict memoized under an earlier policy is
\* returned after a reload, whether periodic, forced, successful or failed.
C23_VerdictOfLoadedPolicy ==
  /\ blOp.op = "isRepoBlacklisted"
       => blOp.result = (/\ blOp.path # << >>
                         /\ blacklistConfig.enabled
                         /\ evaluate(blacklistConfig, blOp.path))
  /\ blacklistConfig.enabled
       => \A p \in DOMAIN checkedPathsCache :
            checkedPathsCache[p] = evaluate(blacklistConfig, p)

\* C23 (witness): after a reload that failed, the verdict cache still holds
\* "blocked" for O/R from the policy loaded before, and isRepoBlacklisted("O/R")
\* answers what the policy now in memory yields
C23_StaleVerdictNotReturned ==
  /\ blOp.op = "isRepoBlacklisted"
  /\ blOp.path = s_OR
  /\ blOp.result = FALSE
  /\ s_OR \in DOMAIN checkedPathsCache
  /\ checkedPathsCache[s_OR] = TRUE
  /\ lastGood.valid
  /\ lastGood.policy = PolicyA

\* C24: a request that reaches the blacklist evaluation under an enabled policy,
\* and names no whitelisted repository, is blocked when a keyword of the policy
\* is a substring, ignoring case, of its full path, wherever in the path.
C24_KeywordInFullPath ==
  (/\ req.st \in {"upstream", "done", "unhandled"}
   /\ req.handler \in RouteHandlers \cup {"admin", "blocked", "routeBlocked"}
   /\ blacklistConfig.enabled
   /\ \E k \in blacklistConfig.keywords : includes(toLowerCase(req.url), toLowerCase(k))
   /\ \A w \in blacklistConfig.whitelistRepositories :
        ~includes(toLowerCase(req.url), toLowerCase(w)))
  => req.handler \in {"blocked", "routeBlocked"}

\* C25: under an enabled policy a request to /api/repos/{owner}/{repo}/... or to
\* /raw/{owner}/{repo}/... whose owner/repo is in repositories and not in
\* whitelistRepositories is answered with the blocked response, as on the site
\* route, and no upstream call is made for it.
C25_ListedRepoBlockedOnApiAndRaw ==
  LET sg == splitAll(req.url)
      repo == IF startsWith(req.url, <<"/", "a", "p", "i", "/", "r", "e", "p", "o", "s", "/">>) /\ Len(sg) >= 5
              THEN sg[4] \o <<"/">> \o sg[5]
              ELSE IF startsWith(req.url, <<"/", "r", "a", "w", "/">>) /\ Len(sg) >= 4
              THEN sg[3] \o <<"/">> \o sg[4]
              ELSE << >>
  IN (/\ req.st \in {"upstream", "done", "unhandled"}
      /\ req.method # "OPTIONS"
      /\ blacklistConfig.enabled
      /\ repo # << >>
      /\ inRepositories(blacklistConfig, repo)
      /\ ~inWhitelist(blacklistConfig, repo))
     => /\ req.handler \in {"blocked", "routeBlocked"}
        /\ req.status = blockedStatus(blacklistConfig)
        /\ req.calls = << >>

\* The file holds a policy that parses and is newer than the one in memory.
fileIsNewer == file.state = "ok" /\ file.mtime > configLastModified

\* C26 (the periodic check): once the file holds a newer policy that parses, the
\* policy in memory comes to equal the file's content, unless the file is made
\* unreadable first.
C26_PeriodicCheckReloads ==
  fileIsNewer ~> (file.state # "ok" \/ blacklistConfig = file.content)

\* C26: when the file holds a newer policy that parses, the next request whose
\* URL goes through the blacklist evaluation reloads it: after the request the
\* policy in memory equals the file's content, also when the policy in memory
\* before the request was disabled.
C26_NextEvaluationReloads ==
  [][(/\ fileIsNewer
      /\ requests' = requests + 1
      /\ reqs'[1].method # "OPTIONS"
      /\ ~isStaticFile(reqs'[1].url))
     => blacklistConfig' = file.content]_vars

\* C27: an admin API request other than POST /admin/api/login is executed only
\* when it comes from an allowed IP address and carries a valid JWT or the admin
\* token; any other such request is answered 401 or 403 and changes neither the
\* accounts, nor the signed tokens, nor the request statistics.
C27_AdminRequiresAuth ==
  [][(adminOp'.op = "request" /\ logs'.access = logs.access + 1
      /\ ~(adminOp'.remoteAddress \in ALLOWED_IPS /\ adminOp'.credentials))
     => (/\ adminOp'.status \in {401, 403}
         /\ ~adminOp'.executed
         /\ UNCHANGED <<users, issued, adminStats>>)]_vars

\* C28: a request authorized by the JWT of an account whose stored role is user
\* is refused the admin-only operations: adding a user, deleting a user,
\* changing another user's password.
C28_AdminOnlyOperations ==
  (/\ adminOp.op = "request"
   /\ adminOp.method = "POST"
   /\ adminOp.path \in AdminOnlyPaths
   /\ adminOp.user # ""
   /\ adminOp.role = "user"
   /\ (adminOp.path = p_change => adminOp.target # adminOp.user))
  => adminOp.status = 403

\* C29: after LoginAttemptLimit consecutive failed logins for a username, a
\* further login attempt for it is rejected without a check of the password.
C29_LoginAttemptsLimited ==
  (adminOp.op = "login" /\ adminOp.failures >= LoginAttemptLimit)
  => ~adminOp.verified

\* C30: an open stream is never cached. A CacheManager.set of a stream-like
\* value leaves the entry map and the size counter as they were; a step of a
\* request on a streamed route (/releases/, /codeload/) neither reads nor
\* writes the cache, and such a request, once routed, has an upstream call of
\* its own and was not answered from the cache.
C30_StreamsNeverCached ==
  [][/\ (\E k \in CacheKeys, d \in CacheData :
           isStream(d) /\ CacheManager_set(k, d, maxAge))
        => (cache' = cache /\ stats' = stats)
     /\ \A i \in Slots :
          (reqs'[i] # reqs[i] /\ reqs'[i].handler \in StreamedHandlers)
          => /\ cache' = cache
             /\ stats' = stats
             /\ Len(reqs'[i].calls) = 1
             /\ ~reqs'[i].hit]_vars

\* C30 (witness): two requests for the same release file are in hand, each
\* with its own upstream call, while a key that holds a cached value was
\* offered a stream afterwards and still holds the value.
C30_TwoStreamsTwoCalls ==
  /\ \A i \in Slots :
       /\ reqs[i].url = u_release
       /\ reqs[i].handler = "releases"
       /\ Len(reqs[i].calls) = 1
  /\ reqs[1].st = "done"
  /\ \E k \in CacheKeys : k \in DOMAIN cache /\ ~lastSet[k].valid

\* C32: the cache's size counter equals the sum of the estimated sizes of the
\* entries stored, after any sequence of set, get, cleanup and clear; it is 0
\* when the cache is empty.
C32_SizeIsSumOfEntries == stats.size = SumSizes(cache, DOMAIN cache)

\* C35: only successful upstream responses are stored in the cache: no entry
\* holds a response with a 4xx or 5xx status.
C35_OnlySuccessCached ==
  \A k \in DOMAIN cache : cache[k].data.status < 400

\* C39: the status code recorded in a request's metrics datapoint equals the
\* status code sent to the client for that request.
C39_RecordedStatusIsSentStatus ==
  req.st = "done" => \A n \in 1..Len(req.records) : req.records[n] = req.status

\* The repository a /codeload/, /releases/ or /fragment/https://github.com/
\* URL names: its owner and repo segments, NoPath for any other URL
namedRepo(url) ==
  LET rest == IF startsWith(url, <<"/", "c", "o", "d", "e", "l", "o", "a", "d", "/">>) THEN SubSeq(url, 11, Len(url))
              ELSE IF startsWith(url, <<"/", "r", "e", "l", "e", "a", "s", "e", "s", "/">>) THEN SubSeq(url, 11, Len(url))
              ELSE IF startsWith(url, <<"/", "f", "r", "a", "g", "m", "e", "n", "t", "/", "h", "t", "t", "p", "s", ":", "/", "/", "g", "i", "t", "h", "u", "b", ".", "c", "o", "m", "/">>)
              THEN SubSeq(url, 30, Len(url))
              ELSE << >>
      sg == splitSlash(rest)
  IN IF Len(sg) >= 2 THEN sg[1] \o <<"/">> \o sg[2] ELSE NoPath

\* C36: under an enabled policy a request that names a blacklisted,
\* non-whitelisted repository through /fragment/https://github.com/{owner}/{repo},
\* /codeload/{owner}/{repo}/ or /releases/{owner}/{repo}/ is blocked like
\* /{owner}/{repo}, and nothing is fetched from upstream for it.
C36_ListedRepoBlockedOnEveryRoute ==
  (/\ req.st \in {"upstream", "done", "unhandled"}
   /\ blacklistConfig.enabled
   /\ namedRepo(req.url) # NoPath
   /\ inRepositories(blacklistConfig, namedRepo(req.url))
   /\ ~inWhitelist(blacklistConfig, namedRepo(req.url)))
  => (req.handler \in {"blocked", "routeBlocked"} /\ req.calls = << >>)

\* C37: a query string appended to the repository segment does not change a
\* blocked verdict into an allowed one: a request whose URL up to the "?" is
\* blocked is blocked.
C37_QueryKeepsVerdict ==
  LET q == indexOf(req.url, <<"?">>)
      base == SubSeq(req.url, 1, q - 1)
  IN (/\ req.st \in {"upstream", "done", "unhandled"}
      /\ q > 0
      /\ \/ blockBlacklistedContent(blState, base).blocked
         \/ shouldBlockRequest(blState, base).blocked)
     => req.handler \in {"blocked", "routeBlocked"}

admins(us) == {u \in Usernames : us[u].role = "admin"}

\* C40: after any sequence of addUser, deleteUser, changePassword and
\* changeOwnPassword from the initial store, the store holds a user of role
\* admin; deleteUser of the only admin returns success=false and leaves the
\* store as it was.
C40_AnAdminRemains ==
  /\ [](admins(users) # {})
  /\ [][(/\ adminOp'.op = "deleteUser"
         /\ admins(users) = {adminOp'.target})
        => (users' = users /\ ~adminOp'.executed)]_vars

\* C40 (witness): deleteUser of the only admin was refused while another
\* account exists.
C40_OnlyAdminKept ==
  /\ adminOp.op = "deleteUser"
  /\ ~adminOp.executed
  /\ admins(users) = {adminOp.target}
  /\ \E u \in Usernames : users[u].role = "user"

\* The requests whose body the handlers read
withBody(r) == r.method \in BodyMethods /\ r.handler \in {"api", "github"}

\* C31: for POST, PUT and PATCH on the API and site routes the upstream call
\* is issued only after the inbound body has ended, and carries the complete
\* body: the bytes that arrived.
C31_CallAfterEndWithWholeBody ==
  (withBody(req) /\ req.calls # << >>)
    => (req.st # "body" /\ req.calls[1].data = req.inbound)

\* C31 (order alone): no call is out while the body is still arriving, and no
\* byte arrives after the call.
C31_NoCallBeforeEnd ==
  /\ [](withBody(req) /\ req.st = "body" => req.calls = << >>)
  /\ [][(withBody(req) /\ req.calls # << >> /\ reqs'[1].st # "idle")
          => reqs'[1].inbound = req.inbound]_vars

\* C33: every POST, PUT or PATCH on the API and site routes that is answered
\* made an upstream call carrying its body and was not answered from the
\* cache, and the cache holds no response to such a request.
C33_BodyRequestsBypassCache ==
  /\ (withBody(req) /\ req.st = "done")
       => (~req.hit /\ req.calls # << >> /\ req.calls[1].data = utf8(req.body))
  /\ \A k \in DOMAIN cache :
       \A m \in BodyMethods :
         /\ ~startsWith(k, <<"a", "p", "i", ":">> \o methodString(m) \o <<":">>)
         /\ ~startsWith(k, <<"g", "i", "t", "h", "u", "b", ":">> \o methodString(m) \o <<":">>)

\* C34: what a client receives on the API and site routes depends on its own
\* request and on the upstream alone: a 200 response carries what the upstream
\* answers to the client's own Authorization and Cookie headers, never what it
\* answered to another client's.
C34_ResponseForOwnCredentials ==
  (req.st = "done" /\ req.handler \in {"api", "github"} /\ req.status = 200)
    => req.data = req.credentials

\* C38: under any interleaving of upstream completion, fallback completion
\* and the timeout and error events of a request, the response is written at
\* most once: no handler sets a status, headers or body once the response is
\* out.
C38_WrittenAtMostOnce == \A i \in Slots : reqs[i].writes <= 1

\* C38 (the guarded handlers): on the site and assets routes an event's
\* response is the only one, whatever the upstream answers afterwards.
C38_GuardedHandlersWriteOnce ==
  \A i \in Slots : reqs[i].handler # "favicon" => reqs[i].writes <= 1
====
